---- MODULE Spec2Model ----
(***************************************************************************)
(* Model of the g2pi gateway: the account pool (core/account.py), the     *)
(* session-affinity cache and per-conversation locks (core/account.py)    *)
(* and the chat request protocol (main.py, chat_impl).                    *)
(*                                                                         *)
(* Time is a natural number `now` that only grows; time.time() read inside *)
(* one handler is the value of `now` in the state the handler runs in.     *)
(* A timestamp 0 never occurs at run time (the clock starts at 1), so a    *)
(* ledger entry 0 encodes "key absent from the quota_cooldowns dict", and  *)
(* expires_at = 0 encodes expires_at = None.                               *)
(* A Python dict is a sequence of records in insertion order: assigning an *)
(* existing key keeps its position, assigning a new key appends.           *)
(***************************************************************************)
EXTENDS Integers, Sequences, FiniteSets, TLC

VARIABLES
    now,                  \* time.time()
    accounts,             \* MultiAccountManager.accounts (dict, insertion order)
    account_list,         \* MultiAccountManager.account_list
    request_counter,      \* MultiAccountManager._request_counter
    last_account_count,   \* MultiAccountManager._last_account_count
    global_stats,         \* main.global_stats: account_conversations / account_failures
    global_session_cache, \* MultiAccountManager.global_session_cache (dict, insertion order)
    session_locks,        \* MultiAccountManager._session_locks (dict, insertion order)
    lock_owner,           \* which request holds each asyncio.Lock object
    next_lock,            \* identity of the next asyncio.Lock object created
    next_session,         \* identity of the next upstream session created
    req,                  \* per request: position and locals of chat_impl
    ret,                  \* what the last pool or cache operation returned
    failed_at,            \* history: time of the last failure with a status other than 400, per account and capability (text when the capability is missing or unknown)
    nfail,                \* history: number of record_failure calls so far
    rr_sel,               \* history: the selectable list seen by the last round-robin select
    rr_hist,              \* history: accounts returned by consecutive round-robin selects on rr_sel
    created,              \* history: upstream sessions created in RESOLVE_SESSION on a cache miss
    MAX_ACCOUNT_SWITCH_TRIES, \* main.MAX_ACCOUNT_SWITCH_TRIES (config.retry.max_account_switch_tries)
    database_enabled,         \* storage.is_database_enabled(), fixed for the life of the process
    tasks,                    \* BaseTaskService._tasks: task id -> task (status "none": not created)
    pending_task_ids,         \* BaseTaskService._pending_task_ids
    current_task_id,          \* BaseTaskService._current_task_id (0: None)
    current_asyncio_task,     \* BaseTaskService._current_asyncio_task, named by its task's id (0: None)
    worker_task,              \* BaseTaskService._worker_task: position of the _run_worker coroutine
    next_task,                \* _run_worker: the task whose _run_one_task the worker awaits (0: None)
    direct,                   \* position of each task's _run_task_directly coroutine
    body,                     \* position of each task's _execute_task coroutine
    must_cancel,              \* body coroutines on which Task.cancel() was called
    threads,                  \* tasks with a _refresh_one call running in the executor
    entry,                    \* how the service is driven: "start_login" or "enqueue"
    task_hist,                \* history: order of enqueues and starts, cancellations, call counter
    stream,                   \* the text handed to parse_json_array_stream and the objects it was made of
    parser,                   \* parse_json_array_stream: the generator's locals, position and output
    fp_request,               \* a chat request: client identifier and messages
    fp_key,                   \* the conversation key computed for fp_request
    multi_account_mgr,        \* main.multi_account_mgr: which MultiAccountManager object the module global names
    cache_lock,               \* MultiAccountManager._cache_lock: the coroutine that holds it (0: free)
    session_locks_lock        \* MultiAccountManager._session_locks_lock: the coroutine that holds it (0: free)

poolVars == <<accounts, account_list, request_counter, last_account_count, global_stats>>
cacheVars == <<global_session_cache, session_locks, lock_owner, next_lock, next_session>>
histVars == <<failed_at, nfail, rr_sel, rr_hist, created>>
configVars == <<MAX_ACCOUNT_SWITCH_TRIES, database_enabled>>
serviceVars == <<tasks, pending_task_ids, current_task_id, current_asyncio_task, worker_task,
                 next_task, direct, body, must_cancel, threads, entry, task_hist>>
decoderVars == <<stream, parser>>
messageVars == <<fp_request, fp_key>>
mutexVars == <<cache_lock, session_locks_lock>>
vars == <<now, poolVars, cacheVars, req, ret, histVars, configVars, serviceVars, decoderVars,
          messageVars, multi_account_mgr, mutexVars>>

----------------------------------------------------------------------------
(* Bounds of the model *)

MaxTime == 4          \* the clock stops at MaxTime
MaxFailures == 1      \* record_failure calls explored per behaviour
MaxCounter == 5       \* _request_counter values explored by the round-robin specification
PoolMaxCounter == 1   \* _request_counter values explored by the pool specification
RandMax == 2          \* random.randint(0, 999999) is drawn from 0..RandMax

(* Cooldown windows (seconds in the source, clock ticks here), text shorter *)
(* than images and videos as in the defaults 7200 / 14400 / 14400.          *)
TextWindow == 2
ImagesWindow == 3
VideosWindow == 3

AccountIds == {"a1", "a2", "a3"}
QUOTA_TYPES == {"text", "images", "videos"}
NoCooldowns == [qt \in QUOTA_TYPES |-> 0]
Absent == -1          \* a key missing from a configuration record

----------------------------------------------------------------------------
(* Sequence helpers *)

Range(s) == {s[i] : i \in DOMAIN s}

Min(a, b) == IF a <= b THEN a ELSE b

\* dict lookup: the value stored under key k, d[k]
DictHas(d, k) == \E i \in DOMAIN d : d[i].key = k
DictGet(d, k) == d[CHOOSE i \in DOMAIN d : d[i].key = k]
\* dict assignment d[k] = v: in place when k is present, appended when new
DictSet(d, k, v) ==
    IF DictHas(d, k)
    THEN [i \in DOMAIN d |-> IF d[i].key = k THEN v ELSE d[i]]
    ELSE Append(d, v)
\* del d[k]
DictDel(d, k) == SelectSeq(d, LAMBDA e : e.key # k)
DictKeys(d) == [i \in DOMAIN d |-> d[i].key]

----------------------------------------------------------------------------
(* AccountConfig and AccountManager (core/account.py) *)

\* AccountConfig.is_expired: remaining = expires_at - now; expired when remaining <= 0
is_expired(acc, t) == acc.expires_at # 0 /\ acc.expires_at - t <= 0

\* AccountManager.__init__
AccountManager(config) ==
    [key |-> config.id,
     disabled |-> config.disabled,
     expires_at |-> config.expires_at,
     is_available |-> TRUE,
     quota_cooldowns |-> NoCooldowns,
     conversation_count |-> 0,
     failure_count |-> 0]

\* AccountManager._get_quota_cooldown_seconds
get_quota_cooldown_seconds(quota_type) ==
    IF quota_type = "images" THEN ImagesWindow
    ELSE IF quota_type = "videos" THEN VideosWindow
    ELSE TextWindow

\* the quota type a failure is booked on: text when missing ("") or unknown
failure_quota_type(quota_type) ==
    IF quota_type = "" \/ quota_type \notin QUOTA_TYPES THEN "text" ELSE quota_type

\* AccountManager.handle_non_http_error: the account after the call
handle_non_http_error(acc, quota_type, t) ==
    [acc EXCEPT !.quota_cooldowns[failure_quota_type(quota_type)] = t]

handle_http_error_always(acc, status_code, quota_type, t) ==
    [acc EXCEPT !.quota_cooldowns[failure_quota_type(quota_type)] = t]

\* AccountManager.handle_http_error: the account after the call
handle_http_error(acc, status_code, quota_type, t) ==
    IF status_code = 400 THEN acc
    ELSE [acc EXCEPT !.quota_cooldowns[failure_quota_type(quota_type)] = t]

is_quota_available_ignoring_window(acc, quota_type, t) ==
    quota_type \notin QUOTA_TYPES \/ acc.quota_cooldowns[quota_type] = 0
    \/ t - acc.quota_cooldowns[quota_type] >= 1

\* AccountManager.is_quota_available: the value returned
is_quota_available(acc, quota_type, t) ==
    IF quota_type \notin QUOTA_TYPES THEN TRUE
    ELSE IF acc.quota_cooldowns[quota_type] = 0 THEN TRUE
    ELSE IF t - acc.quota_cooldowns[quota_type] < get_quota_cooldown_seconds(quota_type)
    THEN FALSE
    ELSE TRUE

\* AccountManager.is_quota_available: the account after the call (an elapsed
\* entry is deleted when it is read)
after_is_quota_available(acc, quota_type, t) ==
    IF quota_type \in QUOTA_TYPES /\ acc.quota_cooldowns[quota_type] # 0
       /\ ~(t - acc.quota_cooldowns[quota_type] < get_quota_cooldown_seconds(quota_type))
    THEN [acc EXCEPT !.quota_cooldowns[quota_type] = 0]
    ELSE acc

RECURSIVE all_other_quotas(_, _, _)
\* all(self.is_quota_available(qt) for qt in quota_types if qt != "text"):
\* evaluated in order, stopping at the first unavailable type
all_other_quotas(acc, quota_types, t) ==
    IF quota_types = <<>> THEN [ok |-> TRUE, acc |-> acc]
    ELSE IF Head(quota_types) = "text" THEN all_other_quotas(acc, Tail(quota_types), t)
    ELSE IF is_quota_available(acc, Head(quota_types), t)
    THEN all_other_quotas(after_is_quota_available(acc, Head(quota_types), t),
                          Tail(quota_types), t)
    ELSE [ok |-> FALSE, acc |-> acc]

are_quotas_available_no_text(acc, quota_types, t) ==
    all_other_quotas(acc, quota_types, t)

\* AccountManager.are_quotas_available: [ok: the value returned, acc: the
\* account after the call]. quota_types = <<>> stands for None and for [].
are_quotas_available(acc, quota_types, t) ==
    IF quota_types = <<>> THEN [ok |-> TRUE, acc |-> acc]
    ELSE IF ~is_quota_available(acc, "text", t) THEN [ok |-> FALSE, acc |-> acc]
    ELSE all_other_quotas(after_is_quota_available(acc, "text", t), quota_types, t)

\* AccountManager.should_retry
should_retry(acc) == TRUE

----------------------------------------------------------------------------
(* MultiAccountManager: selection (core/account.py) *)

\* MultiAccountManager.add_account on the manager m = [accounts, account_list]
add_account(m, config, stats) ==
    LET manager == [AccountManager(config) EXCEPT
                        !.conversation_count = stats.account_conversations[config.id],
                        !.failure_count = stats.account_failures[config.id]]
    IN [accounts |-> DictSet(m.accounts, config.id, manager),
        account_list |-> Append(m.account_list, config.id)]

get_available_accounts_unfiltered(accs, quota_types, t) ==
    [list |-> DictKeys(accs), accounts |-> accs]

\* MultiAccountManager.get_available_accounts: [list: the ids returned, in
\* dict order; accounts: the dict after the call]
get_available_accounts(accs, quota_types, t) ==
    LET chk(i) == are_quotas_available(accs[i], quota_types, t)
        skip(i) == accs[i].disabled \/ is_expired(accs[i], t)
    IN [list |-> DictKeys(SelectSeq([i \in DOMAIN accs |->
                        [key |-> accs[i].key, ok |-> ~skip(i) /\ chk(i).ok]],
                        LAMBDA e : e.ok)),
        accounts |-> [i \in DOMAIN accs |-> IF skip(i) THEN accs[i] ELSE chk(i).acc]]

\* MultiAccountManager.get_account with an explicit account id:
\* [val: the id returned or the HTTP status raised, accounts: the dict after]
get_account_explicit(accs, account_id, quota_types, t) ==
    IF ~DictHas(accs, account_id) THEN [val |-> "404", accounts |-> accs]
    ELSE LET account == DictGet(accs, account_id)
             chk == are_quotas_available(account, quota_types, t)
             after == DictSet(accs, account_id, chk.acc)
         IN IF ~should_retry(account) THEN [val |-> "503", accounts |-> accs]
            ELSE IF ~chk.ok THEN [val |-> "503", accounts |-> after]
            ELSE [val |-> account_id, accounts |-> after]

counter_for_select_reseeding(counter, last_count, n, rnd) == rnd

\* the counter the round-robin branch of get_account uses for its index:
\* reseeded to the random value rnd when the number of candidates changed
counter_for_select(counter, last_count, n, rnd) ==
    IF n # last_count THEN rnd ELSE counter

\* MultiAccountManager.get_account without an account id (round-robin):
\* [val, accounts, counter: _request_counter after, last: _last_account_count after]
get_account_round_robin(accs, counter, last_count, quota_types, t, rnd) ==
    LET av == get_available_accounts(accs, quota_types, t)
        n == Len(av.list)
        c == counter_for_select(counter, last_count, n, rnd)
    IN IF n = 0
       THEN [val |-> "503", accounts |-> av.accounts, counter |-> counter, last |-> last_count]
       ELSE [val |-> av.list[(c % n) + 1], accounts |-> av.accounts,
             counter |-> c + 1, last |-> n]

----------------------------------------------------------------------------
(* Loading and reloading the pool (core/account.py) *)

\* one account record of the configuration source
Cfg(id, disabled, expires_at, has_cooldowns, quota_cooldowns, conversation_count) ==
    [id |-> id, disabled |-> disabled, expires_at |-> expires_at,
     has_cooldowns |-> has_cooldowns, quota_cooldowns |-> quota_cooldowns,
     conversation_count |-> conversation_count, failure_count |-> Absent]

EmptyManager == [accounts |-> <<>>, account_list |-> <<>>]

\* the body of the loop of load_multi_account_config for one record
load_one_account(m, acc, stats, t) ==
    LET m1 == add_account(m, acc, stats)
        a1 == DictGet(m1.accounts, acc.id)
        a2 == IF acc.has_cooldowns
              THEN [a1 EXCEPT !.quota_cooldowns = acc.quota_cooldowns] ELSE a1
        a3 == IF acc.conversation_count # Absent
              THEN [a2 EXCEPT !.conversation_count = acc.conversation_count] ELSE a2
        a4 == IF acc.failure_count # Absent
              THEN [a3 EXCEPT !.failure_count = acc.failure_count] ELSE a3
        a5 == IF is_expired(a4, t) THEN [a4 EXCEPT !.is_available = FALSE] ELSE a4
    IN [m1 EXCEPT !.accounts = DictSet(m1.accounts, acc.id, a5)]

RECURSIVE load_accounts(_, _, _, _)
load_accounts(m, accounts_data, stats, t) ==
    IF accounts_data = <<>> THEN m
    ELSE load_accounts(load_one_account(m, Head(accounts_data), stats, t),
                       Tail(accounts_data), stats, t)

\* load_multi_account_config: the new manager's accounts and account_list
load_multi_account_config(accounts_data, stats, t) ==
    load_accounts(EmptyManager, accounts_data, stats, t)

restore_runtime_state_no_cooldowns(new_acc, old_acc) ==
    [new_acc EXCEPT !.conversation_count = old_acc.conversation_count,
                    !.failure_count = old_acc.failure_count,
                    !.is_available = old_acc.is_available]

\* reload_accounts, "Restore stats + runtime state" for one surviving account
restore_runtime_state(new_acc, old_acc) ==
    [new_acc EXCEPT !.conversation_count = old_acc.conversation_count,
                    !.failure_count = old_acc.failure_count,
                    !.is_available = old_acc.is_available,
                    !.quota_cooldowns = old_acc.quota_cooldowns]

\* reload_accounts: the new manager's accounts and account_list
reload_accounts(old_accounts, accounts_data, stats, t) ==
    LET new_mgr == load_multi_account_config(accounts_data, stats, t)
    IN [new_mgr EXCEPT !.accounts =
            [i \in DOMAIN new_mgr.accounts |->
                IF DictHas(old_accounts, new_mgr.accounts[i].key)
                THEN restore_runtime_state(new_mgr.accounts[i],
                                           DictGet(old_accounts, new_mgr.accounts[i].key))
                ELSE new_mgr.accounts[i]]]

\* main.lifespan: the counters are set from global_stats at startup
lifespan_restore(accs, stats) ==
    [i \in DOMAIN accs |->
        [accs[i] EXCEPT !.conversation_count = stats.account_conversations[accs[i].key],
                        !.failure_count = stats.account_failures[accs[i].key]]]

----------------------------------------------------------------------------
(* Enabling, disabling and refreshing accounts *)

\* account.update_account_disabled_status: the accounts dict it leaves and
\* whether it raised.  With the database enabled the row is updated and the
\* flag of the pooled account follows.  Without it an unknown id raises
\* ValueError before any change; a pooled account gets its flag set in memory
\* and then save_accounts_to_file raises RuntimeError("Database is not enabled").
update_account_disabled_status(accs, account_id, disabled, db) ==
    IF DictHas(accs, account_id)
    THEN [accounts |-> DictSet(accs, account_id,
                               [DictGet(accs, account_id) EXCEPT !.disabled = disabled]),
          raised |-> ~db]
    ELSE [accounts |-> accs, raised |-> ~db]

\* account.bulk_update_account_disabled_status: the flags of the pooled ids
\* are set in both modes; without the database save_accounts_to_file raises.
bulk_update_account_disabled_status(accs, account_ids, disabled, db) ==
    [accounts |-> [i \in DOMAIN accs |->
                      IF accs[i].key \in account_ids
                      THEN [accs[i] EXCEPT !.disabled = disabled]
                      ELSE accs[i]],
     raised |-> ~db]

\* main.admin_enable_account: the accounts dict after; an exception of the
\* update is answered with HTTP 500 before the cooldowns are cleared
admin_enable_account(accs, account_id, db) ==
    LET u == update_account_disabled_status(accs, account_id, FALSE, db)
    IN IF ~u.raised /\ DictHas(u.accounts, account_id)
       THEN DictSet(u.accounts, account_id,
                    [DictGet(u.accounts, account_id) EXCEPT !.quota_cooldowns = NoCooldowns])
       ELSE u.accounts

\* main.admin_bulk_enable_accounts: the accounts dict after; an exception of
\* the bulk update leaves the handler before the cooldowns are cleared
admin_bulk_enable_accounts(accs, account_ids, db) ==
    LET u == bulk_update_account_disabled_status(accs, account_ids, FALSE, db)
    IN IF u.raised
       THEN u.accounts
       ELSE [i \in DOMAIN u.accounts |->
                IF u.accounts[i].key \in account_ids
                THEN [u.accounts[i] EXCEPT !.quota_cooldowns = NoCooldowns]
                ELSE u.accounts[i]]

\* main.admin_bulk_disable_accounts: the accounts dict after
admin_bulk_disable_accounts(accs, account_ids, db) ==
    bulk_update_account_disabled_status(accs, account_ids, TRUE, db).accounts

\* main.admin_disable_account: the accounts dict after
admin_disable_account(accs, account_id, db) ==
    update_account_disabled_status(accs, account_id, TRUE, db).accounts

\* the configuration source as LoginService writes it back: the same ids, flags
\* and expiry, new credentials
current_accounts_data(accs) ==
    [i \in DOMAIN accs |->
        Cfg(accs[i].key, accs[i].disabled, accs[i].expires_at, FALSE, NoCooldowns, Absent)]

\* LoginService: after a successful login the account's runtime state is reset
login_reset(accs, account_id) ==
    IF DictHas(accs, account_id)
    THEN DictSet(accs, account_id,
                 [DictGet(accs, account_id) EXCEPT !.quota_cooldowns = NoCooldowns,
                                                   !.is_available = TRUE])
    ELSE accs

----------------------------------------------------------------------------
(* The capabilities a request needs (main.py) *)

Models == {"gemini-auto", "gemini-imagen", "gemini-veo"}

\* main.get_request_quota_type, with MODEL_TO_QUOTA_TYPE
get_request_quota_type(model_name) ==
    IF model_name = "gemini-imagen" THEN "images"
    ELSE IF model_name = "gemini-veo" THEN "videos"
    ELSE "text"

\* main.get_required_quota_types
get_required_quota_types(model_name) ==
    IF get_request_quota_type(model_name) # "text"
    THEN <<"text", get_request_quota_type(model_name)>>
    ELSE <<"text">>

----------------------------------------------------------------------------
(* Inputs and initial state of the pool *)

QuotaTypeLists ==
    {<<>>, <<"text">>, <<"text", "images">>, <<"videos">>}
FailureQuotaTypes == QUOTA_TYPES \cup {"", "audio"}
\* the default of config.retry.max_account_switch_tries
max_account_switch_tries == 5
\* 0 stands for a failure without an HTTP status (handle_non_http_error)
StatusCodes == {0, 400, 429}

InitStats ==
    [account_conversations |-> [a \in AccountIds |-> IF a = "a1" THEN 2 ELSE 0],
     account_failures |-> [a \in AccountIds |-> IF a = "a2" THEN 1 ELSE 0]]

InitConfig ==
    <<Cfg("a1", FALSE, 0, FALSE, NoCooldowns, Absent),
      Cfg("a2", FALSE, 4, FALSE, NoCooldowns, Absent)>>

ReloadConfigs ==
    {<<Cfg("a1", FALSE, 0, TRUE, NoCooldowns, 0),
       Cfg("a2", FALSE, 4, FALSE, NoCooldowns, Absent)>>,
     <<Cfg("a2", FALSE, 4, FALSE, NoCooldowns, Absent),
       Cfg("a3", FALSE, 0, TRUE, [NoCooldowns EXCEPT !["images"] = 2], 1)>>}

NoRet == [op |-> "none", account_id |-> "", quota_types |-> <<>>, val |-> ""]
NoHistory == [a \in AccountIds |-> NoCooldowns]
NoRequests == <<>>

(***************************************************************************)
(* The task service (BaseTaskService, LoginService): state of a service    *)
(* that has not been given a task yet.                                     *)
(***************************************************************************)
\* task ids (uuid4 in the code), in the order they are given out
TaskIds == {1, 2, 3}

\* a slot of _tasks before its task is created
NoTask ==
    [status |-> "none", progress |-> 0, success_count |-> 0, fail_count |-> 0,
     finished_at |-> 0, logs |-> <<>>, cancel_requested |-> FALSE, count |-> 0,
     appended |-> <<>>]

NoTaskHistory ==
    [enqueued |-> <<>>, started |-> <<>>, cancelled_pending |-> {}, cancelled_running |-> {},
     calls |-> 0]

\* BaseTaskService.__init__
IdleService(e) ==
    /\ tasks = [t \in TaskIds |-> NoTask]
    /\ pending_task_ids = <<>>
    /\ current_task_id = 0
    /\ current_asyncio_task = 0
    /\ worker_task = "none"
    /\ next_task = 0
    /\ direct = [t \in TaskIds |-> "none"]
    /\ body = [t \in TaskIds |-> "none"]
    /\ must_cancel = {}
    /\ threads = {}
    /\ entry = e
    /\ task_hist = NoTaskHistory

\* no stream is being decoded
NoStream == [text |-> <<>>, objects |-> <<>>]
NoParser ==
    [at |-> "none", pos |-> 0, brace_level |-> 0, in_string |-> FALSE, escape_next |-> FALSE,
     buffer |-> <<>>, yielded |-> <<>>, warned |-> FALSE]

\* no request is being fingerprinted
NoChat == [client_identifier |-> <<>>, messages |-> <<>>]
NoKey == [md5 |-> FALSE, of |-> <<>>]

IdleDecoder ==
    /\ stream = NoStream
    /\ parser = NoParser

IdleFingerprint ==
    /\ fp_request = NoChat
    /\ fp_key = NoKey

\* the MultiAccountManager built at import time, whose start_background_cleanup
\* main.lifespan starts, and a manager returned by a later reload_accounts
StartupManager == "startup"
ReloadedManager == "reloaded"

InitRest ==
    /\ now = 1
    /\ multi_account_mgr = StartupManager
    /\ cache_lock = 0
    /\ session_locks_lock = 0
    /\ global_stats = InitStats
    /\ request_counter = 0
    /\ last_account_count = 0
    /\ global_session_cache = <<>>
    /\ session_locks = <<>>
    /\ lock_owner = <<>>
    /\ next_lock = 1
    /\ next_session = 1
    /\ ret = NoRet
    /\ nfail = 0
    /\ failed_at = NoHistory
    /\ rr_sel = <<>>
    /\ rr_hist = <<>>
    /\ created = 0

InitCommon ==
    /\ IdleService("start_login")
    /\ IdleDecoder
    /\ IdleFingerprint
    /\ InitRest

\* the state of a process whose account pool is empty and idle
InitNoPool ==
    /\ InitRest
    /\ accounts = <<>>
    /\ account_list = <<>>
    /\ req = NoRequests
    /\ MAX_ACCOUNT_SWITCH_TRIES = max_account_switch_tries
    /\ database_enabled = TRUE

InitPool ==
    /\ InitCommon
    /\ LET m == load_multi_account_config(InitConfig, InitStats, 1)
       IN /\ accounts = lifespan_restore(m.accounts, InitStats)
          /\ account_list = m.account_list
    /\ req = NoRequests
    /\ MAX_ACCOUNT_SWITCH_TRIES = max_account_switch_tries
    /\ database_enabled = TRUE

----------------------------------------------------------------------------
(* Pool operations as actions *)

LastN(s, n) == IF Len(s) <= n THEN s ELSE SubSeq(s, Len(s) - n + 1, Len(s))

Tick ==
    /\ now < MaxTime
    /\ now' = now + 1
    /\ ret' = NoRet
    /\ UNCHANGED <<configVars, mutexVars, multi_account_mgr, serviceVars, decoderVars, messageVars, poolVars, cacheVars, req, histVars>>

\* select(explicit_id, required_capabilities)
GetAccount(account_id, quota_types) ==
    LET r == get_account_explicit(accounts, account_id, quota_types, now)
    IN /\ accounts' = r.accounts
       /\ ret' = [op |-> "get_account", account_id |-> account_id,
                  quota_types |-> quota_types, val |-> r.val]
       /\ UNCHANGED <<configVars, mutexVars, multi_account_mgr, serviceVars, decoderVars, messageVars, now, account_list, request_counter, last_account_count, global_stats,
                      cacheVars, req, histVars>>

\* select(null, required_capabilities), _request_counter explored up to cap
GetAccountRoundRobin(quota_types, rnd, cap) ==
    LET r == get_account_round_robin(accounts, request_counter, last_account_count,
                                     quota_types, now, rnd)
    IN /\ r.counter <= cap
       /\ accounts' = r.accounts
       /\ request_counter' = r.counter
       /\ last_account_count' = r.last
       /\ ret' = [op |-> "get_account", account_id |-> "",
                  quota_types |-> quota_types, val |-> r.val]
       /\ UNCHANGED <<configVars, mutexVars, multi_account_mgr, serviceVars, decoderVars, messageVars, now, account_list, global_stats, cacheVars, req,
                      failed_at, nfail, created>>

\* the history of round-robin selects: the selectable list the select saw and
\* the accounts returned since that list was first seen
RecordRoundRobin(quota_types) ==
    LET sel == get_available_accounts(accounts, quota_types, now).list
    IN IF ret'.val = "503" THEN UNCHANGED <<rr_sel, rr_hist>>
       ELSE /\ rr_sel' = sel
            /\ rr_hist' = IF sel = rr_sel THEN LastN(Append(rr_hist, ret'.val), Len(sel))
                          ELSE <<ret'.val>>

\* record_failure(account, capability, detail)
RecordFailure(a, status_code, quota_type) ==
    /\ DictHas(accounts, a)
    /\ nfail < MaxFailures
    /\ nfail' = nfail + 1
    /\ accounts' = DictSet(accounts, a,
            IF status_code = 0
            THEN handle_non_http_error(DictGet(accounts, a), quota_type, now)
            ELSE handle_http_error(DictGet(accounts, a), status_code, quota_type, now))
    /\ ret' = [op |-> "record_failure", account_id |-> a, quota_types |-> <<quota_type>>,
               val |-> ""]
    /\ failed_at' = IF status_code # 400
                    THEN [failed_at EXCEPT
                            ![a][IF quota_type \in QUOTA_TYPES THEN quota_type ELSE "text"] = now]
                    ELSE failed_at
    /\ UNCHANGED <<configVars, mutexVars, multi_account_mgr, serviceVars, decoderVars, messageVars, now, account_list, request_counter, last_account_count, global_stats,
                   cacheVars, req, rr_sel, rr_hist, created>>

\* set_disabled(id, true)
DisableAccount(a) ==
    /\ accounts' = admin_disable_account(accounts, a, database_enabled)
    /\ ret' = NoRet
    /\ UNCHANGED <<configVars, mutexVars, multi_account_mgr, serviceVars, decoderVars, messageVars, now, account_list, request_counter, last_account_count, global_stats,
                   cacheVars, req, histVars>>

\* set_disabled(id, false)
EnableAccount(a) ==
    /\ accounts' = admin_enable_account(accounts, a, database_enabled)
    /\ ret' = NoRet
    /\ failed_at' = IF database_enabled THEN [failed_at EXCEPT ![a] = NoCooldowns] ELSE failed_at
    /\ UNCHANGED <<configVars, mutexVars, multi_account_mgr, serviceVars, decoderVars, messageVars, now, account_list, request_counter, last_account_count, global_stats,
                   cacheVars, req, nfail, rr_sel, rr_hist, created>>

\* the state a new MultiAccountManager replaces the old one with
InstallManager(m) ==
    /\ multi_account_mgr' = ReloadedManager
    /\ accounts' = m.accounts
    /\ account_list' = m.account_list
    /\ request_counter' = 0
    /\ last_account_count' = 0
    /\ global_session_cache' = <<>>
    /\ session_locks' = <<>>
    /\ rr_sel' = <<>>
    /\ rr_hist' = <<>>

\* reload(new_accounts)
Reload(accounts_data) ==
    LET m == reload_accounts(accounts, accounts_data, global_stats, now)
    IN /\ InstallManager(m)
       /\ ret' = [NoRet EXCEPT !.op = "reload"]
       /\ failed_at' = [a \in AccountIds |->
                            IF DictHas(m.accounts, a) THEN failed_at[a] ELSE NoCooldowns]
       /\ UNCHANGED <<configVars, cache_lock, session_locks_lock, serviceVars, decoderVars, messageVars, now, global_stats, lock_owner, next_lock, next_session, req, nfail, created>>

\* LoginService: a credential refresh of account a rewrites the configuration,
\* reloads the pool and resets the account's runtime state
RefreshAccount(a) ==
    LET m == reload_accounts(accounts, current_accounts_data(accounts), global_stats, now)
    IN /\ DictHas(accounts, a)
       /\ InstallManager([m EXCEPT !.accounts = login_reset(m.accounts, a)])
       /\ ret' = NoRet
       /\ failed_at' = [failed_at EXCEPT ![a] = NoCooldowns]
       /\ UNCHANGED <<configVars, cache_lock, session_locks_lock, serviceVars, decoderVars, messageVars, now, global_stats, lock_owner, next_lock, next_session, req, nfail, created>>

NextPool ==
    \/ Tick
    \/ \E qts \in QuotaTypeLists :
            GetAccountRoundRobin(qts, 0, PoolMaxCounter) /\ UNCHANGED <<rr_sel, rr_hist>>
    \/ \E a \in AccountIds, sc \in StatusCodes, qt \in FailureQuotaTypes :
            RecordFailure(a, sc, qt)
    \/ \E a \in AccountIds : DisableAccount(a)
    \/ \E a \in AccountIds : EnableAccount(a)
    \/ \E a \in AccountIds : RefreshAccount(a)

SpecPool == InitPool /\ [][NextPool]_vars

NextExplicit ==
    \/ Tick
    \/ \E a \in AccountIds, qts \in QuotaTypeLists : GetAccount(a, qts)
    \/ \E a \in AccountIds, sc \in StatusCodes, qt \in FailureQuotaTypes :
            RecordFailure(a, sc, qt)
    \/ \E a \in AccountIds : DisableAccount(a)
    \/ \E a \in AccountIds : EnableAccount(a)

SpecExplicit == InitPool /\ [][NextExplicit]_vars

----------------------------------------------------------------------------
(* Properties of selection and cooldowns *)

\* the capability lists the properties quantify over: those the actions pass
\* and those a request derives from its model
RequestQuotaLists == {get_required_quota_types(m) : m \in Models}
AllQuotaLists == QuotaTypeLists \cup RequestQuotaLists

\* CooldownLedger: capability c of acc is cooling down at time t
CoolingDown(acc, c, t) ==
    acc.quota_cooldowns[c] # 0 /\ t - acc.quota_cooldowns[c] < get_quota_cooldown_seconds(c)

\* the account passes the selectability checks for the required capabilities
\* (text always among them)
Selectable(acc, quota_types, t) ==
    /\ ~acc.disabled
    /\ ~is_expired(acc, t)
    /\ \A c \in (Range(quota_types) \cap QUOTA_TYPES) \cup {"text"} : ~CoolingDown(acc, c, t)

\* what each form of select returns in the current state
ListNow(quota_types) == Range(get_available_accounts(accounts, quota_types, now).list)
ExplicitNow(a, quota_types) == get_account_explicit(accounts, a, quota_types, now)
RoundRobinNow(quota_types, rnd) ==
    get_account_round_robin(accounts, request_counter, last_account_count,
                            quota_types, now, rnd)

\* no form of select returns account a for the capability list
Excluded(a, quota_types) ==
    /\ a \notin ListNow(quota_types)
    /\ ExplicitNow(a, quota_types).val # a
    /\ \A rnd \in 0..RandMax : RoundRobinNow(quota_types, rnd).val # a

\* a failure of capability c that set a cooldown on a is less than window(c) old
\* and no re-enable or credential refresh of a came after it
FailedWithin(a, c) ==
    failed_at[a][c] # 0 /\ now - failed_at[a][c] < get_quota_cooldown_seconds(c)

\* C1 (as amended): after record_failure(A, C) with a status other than 400 (or
\* with no status), no select whose required capabilities include C returns A,
\* by round-robin, by explicit id or in the selectable list, until window(C)
\* has elapsed since the failure or A was re-enabled (or its credentials were
\* refreshed), for as long as A stays in the pool.
C1_FailureExcludesUntilWindowOrEnable ==
    /\ \A a \in AccountIds, c \in QUOTA_TYPES :
          FailedWithin(a, c) /\ DictHas(accounts, a)
          => \A qts \in AllQuotaLists : c \in Range(qts) => Excluded(a, qts)
    /\ (ret.op = "get_account" /\ ret.val \in AccountIds)
          => \A c \in Range(ret.quota_types) \cap QUOTA_TYPES : ~FailedWithin(ret.val, c)

\* C1 witness: a text request was served by a2 while a1 is within the window of
\* a text failure
C1_Witness ==
    /\ ret.op = "get_account" /\ ret.account_id = "" /\ ret.val = "a2"
    /\ "text" \in Range(ret.quota_types)
    /\ FailedWithin("a1", "text")

\* C1 (as claimed): immediately after any record_failure(A, C), no select whose
\* required capabilities include C returns A.
C1_AnyFailureExcludes ==
    (ret.op = "record_failure" /\ ret.quota_types[1] \in QUOTA_TYPES)
    => \A qts \in AllQuotaLists :
          ret.quota_types[1] \in Range(qts) => Excluded(ret.account_id, qts)

\* C2: an account whose text capability is cooling down is returned by no select,
\* whatever (non-empty) capability list is required; an account whose only active
\* cooldowns are images or videos is still selectable for a text-only request.
C2_TextCooldownExcludesAll ==
    \A i \in DOMAIN accounts :
        LET acc == accounts[i] IN
        /\ CoolingDown(acc, "text", now)
           => \A qts \in AllQuotaLists \ {<<>>} : Excluded(acc.key, qts)
        /\ (/\ ~CoolingDown(acc, "text", now)
            /\ CoolingDown(acc, "images", now) \/ CoolingDown(acc, "videos", now)
            /\ ~acc.disabled /\ ~is_expired(acc, now))
           => /\ acc.key \in ListNow(<<"text">>)
              /\ ExplicitNow(acc.key, <<"text">>).val = acc.key

\* C2 witness: a text-only round-robin select returned an account whose images
\* capability is cooling down
C2_Witness ==
    /\ ret.op = "get_account" /\ ret.account_id = "" /\ ret.quota_types = <<"text">>
    /\ ret.val \in AccountIds
    /\ DictHas(accounts, ret.val)
    /\ CoolingDown(DictGet(accounts, ret.val), "images", now)

\* C9 (as claimed): select with an explicit id returns the account only if it is
\* not disabled, not expired and not cooling down for text or a required
\* capability; an account failing a check gives Unavailable (503), an unknown id
\* NotFound (404), and neither error changes the pool.
C9_ExplicitSelectChecks ==
    \A a \in AccountIds, qts \in AllQuotaLists \ {<<>>} :
        LET r == ExplicitNow(a, qts) IN
        /\ r.val = a => DictHas(accounts, a) /\ Selectable(DictGet(accounts, a), qts, now)
        /\ (DictHas(accounts, a) /\ ~Selectable(DictGet(accounts, a), qts, now))
              => r.val = "503"
        /\ ~DictHas(accounts, a) => r.val = "404"
        /\ r.val \in {"503", "404"} => r.accounts = accounts

\* C10 (as claimed): select(null, capabilities) only returns an account that is
\* not disabled, not expired and not cooling down for text nor for a required
\* capability, text being checked also for the empty list; it signals
\* Unavailable exactly when no account satisfies this.
C10_RoundRobinReturnsSelectable ==
    \A qts \in AllQuotaLists, rnd \in 0..RandMax :
        LET r == RoundRobinNow(qts, rnd) IN
        /\ r.val \in AccountIds
              => DictHas(accounts, r.val) /\ Selectable(DictGet(accounts, r.val), qts, now)
        /\ r.val = "503"
              <=> ~\E i \in DOMAIN accounts : Selectable(accounts[i], qts, now)

----------------------------------------------------------------------------
(* Round-robin selection over a pool of three accounts *)

RoundRobinConfig ==
    <<Cfg("a1", FALSE, 0, FALSE, NoCooldowns, Absent),
      Cfg("a2", FALSE, 0, FALSE, NoCooldowns, Absent),
      Cfg("a3", FALSE, 0, FALSE, NoCooldowns, Absent)>>

InitRR ==
    /\ InitCommon
    /\ LET m == load_multi_account_config(RoundRobinConfig, InitStats, 1)
       IN /\ accounts = lifespan_restore(m.accounts, InitStats)
          /\ account_list = m.account_list
    /\ req = NoRequests
    /\ MAX_ACCOUNT_SWITCH_TRIES = max_account_switch_tries
    /\ database_enabled = TRUE

NextRR ==
    \/ \E m \in Models, rnd \in 0..RandMax :
            /\ GetAccountRoundRobin(get_required_quota_types(m), rnd, MaxCounter)
            /\ RecordRoundRobin(get_required_quota_types(m))
    \/ \E a \in AccountIds :
            RecordFailure(a, 429, get_request_quota_type("gemini-imagen"))
    \/ \E a \in AccountIds : DisableAccount(a)
    \/ \E a \in AccountIds : EnableAccount(a)

SpecRR == InitRR /\ [][NextRR]_vars

IndexOf(s, x) == CHOOSE i \in DOMAIN s : s[i] = x

\* C4: while the selectable list seen by select(null, capabilities) stays the
\* same list of N accounts, consecutive selects follow the cyclic order of that
\* list, so N consecutive selects return each of the N accounts exactly once.
C4_RoundRobinVisitsEachOnce ==
    LET n == Len(rr_sel) IN
    /\ \A i \in DOMAIN rr_hist : rr_hist[i] \in Range(rr_sel)
    /\ \A i \in 1..(Len(rr_hist) - 1) :
          rr_hist[i + 1] = rr_sel[(IndexOf(rr_sel, rr_hist[i]) % n) + 1]
    /\ Len(rr_hist) = n
          => /\ Range(rr_hist) = Range(rr_sel)
             /\ \A i, j \in DOMAIN rr_hist : rr_hist[i] = rr_hist[j] => i = j

\* C4 witness: three consecutive selects on an unchanged list of three accounts
C4_Witness == Len(rr_sel) = 3 /\ Len(rr_hist) = 3

----------------------------------------------------------------------------
(* Reloading the pool *)

NextReload ==
    \/ Tick
    \/ \E accounts_data \in ReloadConfigs : Reload(accounts_data)
    \/ \E a \in AccountIds, qt \in QUOTA_TYPES : RecordFailure(a, 429, qt)
    \/ \E a \in AccountIds : DisableAccount(a)

SpecReload == InitPool /\ [][NextReload]_vars

ConfigIds(accounts_data) == {accounts_data[i].id : i \in DOMAIN accounts_data}
PoolIds(accs) == Range(DictKeys(accs))
ConfigOf(accounts_data, id) ==
    accounts_data[CHOOSE i \in DOMAIN accounts_data : accounts_data[i].id = id]

\* runtime state of a surviving account is carried over unchanged
SurvivorsKeepState(accounts_data) ==
    \A id \in ConfigIds(accounts_data) \cap PoolIds(accounts) :
        /\ DictHas(accounts', id)
        /\ DictGet(accounts', id).conversation_count = DictGet(accounts, id).conversation_count
        /\ DictGet(accounts', id).failure_count = DictGet(accounts, id).failure_count
        /\ DictGet(accounts', id).quota_cooldowns = DictGet(accounts, id).quota_cooldowns
        /\ DictGet(accounts', id).is_available = DictGet(accounts, id).is_available

\* an id absent from the new set is in neither the mapping nor the ordered list
AbsentIdsDropped(accounts_data) ==
    \A id \in AccountIds \ ConfigIds(accounts_data) :
        /\ ~DictHas(accounts', id)
        /\ id \notin Range(account_list')

\* C8 (amended): after reload(new_accounts) every surviving id keeps its
\* conversation counter, failure counter, cooldown ledger and availability
\* flag, every id absent from the new set is gone from the mapping and the
\* ordered list, and every newly present id starts with the cooldown snapshot
\* of its configuration record, or with no cooldowns if the record has none.
C8_ReloadPreservesSurvivors ==
    [][\A accounts_data \in ReloadConfigs :
          Reload(accounts_data) =>
              /\ SurvivorsKeepState(accounts_data)
              /\ AbsentIdsDropped(accounts_data)
              /\ \A id \in ConfigIds(accounts_data) \ PoolIds(accounts) :
                    DictGet(accounts', id).quota_cooldowns =
                        IF ConfigOf(accounts_data, id).has_cooldowns
                        THEN ConfigOf(accounts_data, id).quota_cooldowns
                        ELSE NoCooldowns]_vars

\* C8 witness: a reload has dropped a1, kept a2 with a cooldown recorded
\* before the reload, and brought in a3
C8_Witness ==
    /\ ret.op = "reload"
    /\ ~DictHas(accounts, "a1")
    /\ DictHas(accounts, "a2")
    /\ DictGet(accounts, "a2").quota_cooldowns # NoCooldowns
    /\ DictHas(accounts, "a3")

\* C8 as stated: as above, but every newly present id starts with no cooldowns
C8_NewIdsStartWithoutCooldowns ==
    [][\A accounts_data \in ReloadConfigs :
          Reload(accounts_data) =>
              /\ SurvivorsKeepState(accounts_data)
              /\ AbsentIdsDropped(accounts_data)
              /\ \A id \in ConfigIds(accounts_data) \ PoolIds(accounts) :
                    DictGet(accounts', id).quota_cooldowns = NoCooldowns]_vars

----------------------------------------------------------------------------
(* MultiAccountManager: the session cache (core/account.py) *)

\* scaled values of cache_max_size (1000) and session_cache_ttl_seconds (3600)
cache_max_size == 3
cache_ttl == 2
ConvKeys == {"k1", "k2", "k3", "k4"}
NoBinding == [key |-> "", account_id |-> "", session_id |-> 0, updated_at |-> 0]

\* global_session_cache.get(conv_key)
get_session_cache(cache, conv_key) ==
    IF DictHas(cache, conv_key) THEN DictGet(cache, conv_key) ELSE NoBinding

clean_expired_cache_keeping_all(cache, t) == cache

\* MultiAccountManager._clean_expired_cache
clean_expired_cache(cache, t) ==
    SelectSeq(cache, LAMBDA e : ~(t - e.updated_at > cache_ttl))

\* sorted(items, key=updated_at): a stable sort, one insertion at a time
RECURSIVE sorted_items(_)
sorted_items(items) ==
    IF items = <<>> THEN <<>>
    ELSE LET e == items[Len(items)]
             rest == sorted_items(SubSeq(items, 1, Len(items) - 1))
             before == SelectSeq(rest, LAMBDA x : x.updated_at <= e.updated_at)
             after == SelectSeq(rest, LAMBDA x : x.updated_at > e.updated_at)
         IN before \o <<e>> \o after

ensure_cache_size_newest_first(cache) ==
    IF Len(cache) > cache_max_size
    THEN LET sorted == sorted_items(cache)
             keep == (cache_max_size * 8) \div 10
         IN SelectSeq(cache, LAMBDA e : e.key \in {sorted[i].key : i \in 1..keep})
    ELSE cache

\* MultiAccountManager._ensure_cache_size with cache_max_size = max_size
ensure_cache_size_sized(max_size, cache) ==
    IF Len(cache) > max_size
    THEN LET sorted == sorted_items(cache)
             remove_count == Len(sorted) - ((max_size * 8) \div 10)
         IN SelectSeq(cache, LAMBDA e : e.key \notin {sorted[i].key : i \in 1..remove_count})
    ELSE cache

\* MultiAccountManager._ensure_cache_size
ensure_cache_size(cache) == ensure_cache_size_sized(cache_max_size, cache)

\* MultiAccountManager.set_session_cache with cache_max_size = max_size
set_session_cache_sized(max_size, cache, conv_key, account_id, session_id, t) ==
    ensure_cache_size_sized(max_size, DictSet(cache, conv_key,
        [key |-> conv_key, account_id |-> account_id, session_id |-> session_id,
         updated_at |-> t]))

\* MultiAccountManager.set_session_cache
set_session_cache(cache, conv_key, account_id, session_id, t) ==
    ensure_cache_size(DictSet(cache, conv_key,
        [key |-> conv_key, account_id |-> account_id, session_id |-> session_id,
         updated_at |-> t]))

\* MultiAccountManager.update_session_time
update_session_time(cache, conv_key, t) ==
    IF DictHas(cache, conv_key)
    THEN DictSet(cache, conv_key, [DictGet(cache, conv_key) EXCEPT !.updated_at = t])
    ELSE cache

\* put(fingerprint, account_id, session_id)
SetSessionCache(conv_key, account_id, session_id) ==
    /\ global_session_cache' =
            set_session_cache(global_session_cache, conv_key, account_id, session_id, now)
    /\ ret' = [op |-> "set_session_cache", account_id |-> account_id, quota_types |-> <<>>,
               val |-> IF Len(global_session_cache') < Len(global_session_cache)
                       THEN "evicted" ELSE conv_key]
    /\ UNCHANGED <<configVars, mutexVars, multi_account_mgr, serviceVars, decoderVars, messageVars, now, poolVars, session_locks, lock_owner, next_lock, next_session,
                   req, histVars>>

\* touch(fingerprint)
UpdateSessionTime(conv_key) ==
    /\ global_session_cache' = update_session_time(global_session_cache, conv_key, now)
    /\ ret' = NoRet
    /\ UNCHANGED <<configVars, mutexVars, multi_account_mgr, serviceVars, decoderVars, messageVars, now, poolVars, session_locks, lock_owner, next_lock, next_session,
                   req, histVars>>

\* one round of start_background_cleanup, a coroutine of the startup manager:
\* self is the cache requests use only while no reload has replaced the manager
Sweep ==
    /\ global_session_cache' =
            IF multi_account_mgr = StartupManager
            THEN ensure_cache_size(clean_expired_cache(global_session_cache, now))
            ELSE global_session_cache
    /\ ret' = IF global_session_cache' # global_session_cache
              THEN [NoRet EXCEPT !.op = "sweep"] ELSE NoRet
    /\ UNCHANGED <<configVars, mutexVars, multi_account_mgr, serviceVars, decoderVars, messageVars, now, poolVars, session_locks, lock_owner, next_lock, next_session,
                   req, histVars>>

Bindings == {<<"a1", 1>>, <<"a2", 2>>}

NextCache ==
    \/ Tick
    \/ \E k \in ConvKeys, b \in Bindings : SetSessionCache(k, b[1], b[2])
    \/ \E k \in ConvKeys : UpdateSessionTime(k)
    \/ Sweep

SpecCache == InitPool /\ [][NextCache]_vars

\* C6: put(fingerprint, account_id, session_id) followed at once by
\* get(fingerprint) returns the binding just inserted, also when the put
\* itself triggers capacity enforcement.
C6_PutThenGet ==
    [][\A k \in ConvKeys, b \in Bindings :
          SetSessionCache(k, b[1], b[2]) =>
              get_session_cache(global_session_cache', k) =
                  [key |-> k, account_id |-> b[1], session_id |-> b[2],
                   updated_at |-> now]]_vars

\* C6 witness: a put has just triggered capacity enforcement
C6_Witness ==
    /\ ret.op = "set_session_cache"
    /\ ret.val = "evicted"
    /\ Len(global_session_cache) = (cache_max_size * 8) \div 10

\* C7: after every sweep no binding older than the TTL remains and the cache
\* holds at most cache_max_size bindings; whenever capacity enforcement finds
\* the cache above capacity it leaves 80% of capacity, and every binding it
\* removes is at most as recent as every binding it keeps.
C7_SweepLeavesFreshBounded ==
    [][/\ Sweep =>
             /\ \A i \in DOMAIN global_session_cache' :
                    ~(now - global_session_cache'[i].updated_at > cache_ttl)
             /\ Len(global_session_cache') <= cache_max_size
       /\ ret'.val = "evicted" =>
             /\ Len(global_session_cache') = (cache_max_size * 8) \div 10
             /\ \A i \in DOMAIN global_session_cache, j \in DOMAIN global_session_cache' :
                    ~DictHas(global_session_cache', global_session_cache[i].key)
                        => global_session_cache[i].updated_at
                               <= global_session_cache'[j].updated_at]_vars

\* C7 witness: a sweep has just removed an expired binding and kept a fresh one
C7_Witness ==
    /\ ret.op = "sweep"
    /\ global_session_cache # <<>>

----------------------------------------------------------------------------
(* MultiAccountManager: the per-conversation locks (core/account.py) *)

\* scaled value of _session_locks_max_size (2000)
session_locks_max_size == 1

\* acquire_session_lock without the eviction
acquire_session_lock_no_eviction(max_size, locks, cache, conv_key, new_lock) ==
    IF DictHas(locks, conv_key)
    THEN [locks |-> locks, lock |-> DictGet(locks, conv_key).lock, fresh |-> FALSE]
    ELSE [locks |-> Append(locks, [key |-> conv_key, lock |-> new_lock]),
          lock |-> new_lock, fresh |-> TRUE]

\* MultiAccountManager.acquire_session_lock with _session_locks_max_size =
\* max_size: [locks: _session_locks after, lock: the asyncio.Lock returned,
\* fresh: whether it was created by the call]
acquire_session_lock_sized(max_size, locks, cache, conv_key, new_lock) ==
    LET keys_to_remove == SelectSeq(DictKeys(locks), LAMBDA k : ~DictHas(cache, k))
        removed == {keys_to_remove[i] : i \in 1..(Len(keys_to_remove) \div 2)}
        pruned == IF Len(locks) > max_size
                  THEN SelectSeq(locks, LAMBDA e : e.key \notin removed)
                  ELSE locks
    IN IF DictHas(pruned, conv_key)
       THEN [locks |-> pruned, lock |-> DictGet(pruned, conv_key).lock, fresh |-> FALSE]
       ELSE [locks |-> Append(pruned, [key |-> conv_key, lock |-> new_lock]),
             lock |-> new_lock, fresh |-> TRUE]

\* MultiAccountManager.acquire_session_lock
acquire_session_lock(locks, cache, conv_key, new_lock) ==
    acquire_session_lock_sized(session_locks_max_size, locks, cache, conv_key, new_lock)

----------------------------------------------------------------------------
(* chat_impl: one request from session resolution to its outcome (main.py) *)

\* every modelled request asks for a text model
RequestModel == "gemini-auto"
required_quota_types == get_required_quota_types(RequestModel)
request_quota_type == get_request_quota_type(RequestModel)

\* the locals of chat_impl: pc is the await the request is suspended at;
\* session_account is the account current_session was created on, which is
\* the account every set_session_cache call stores next to the session
NewRequest(conv_key) ==
    [pc |-> "idle", conv_key |-> conv_key, session_lock |-> 0,
     account_manager |-> "", new_account |-> "", is_new_conversation |-> FALSE,
     retry_idx |-> 0, max_retries |-> 0,
     current_images |-> FALSE, current_text |-> "last_text", current_retry_mode |-> FALSE,
     current_session |-> 0, session_account |-> "", current_file_ids |-> 0,
     first_response_time |-> FALSE,
     sends |-> 0, selectable_at_send |-> 0, finalized |-> 0]

\* a request whose last message carries an image; current_file_ids names the
\* session the handles were uploaded to (0: the empty list)
NewImageRequest(conv_key) == [NewRequest(conv_key) EXCEPT !.current_images = TRUE]

\* the shared state one step of a request reads and writes
World ==
    [accounts |-> accounts, counter |-> request_counter, last |-> last_account_count,
     cache |-> global_session_cache, stats |-> global_stats, sessions |-> next_session]

\* a failure of account_id is booked: handle_http_error / handle_non_http_error
book_failure(accs, account_id, status_code, t) ==
    IF account_id = "" \/ ~DictHas(accs, account_id) THEN accs
    ELSE DictSet(accs, account_id,
            IF status_code = 0
            THEN handle_non_http_error(DictGet(accs, account_id), request_quota_type, t)
            ELSE handle_http_error(DictGet(accs, account_id), status_code,
                                   request_quota_type, t))

\* finalize_result(status, ...) with status other than "success", then the
\* request ends
finalize_failure(w, rq) ==
    LET id == rq.account_manager
        counted == id # "" /\ DictHas(w.accounts, id)
        n == IF counted THEN DictGet(w.accounts, id).failure_count + 1 ELSE 0
    IN [w |-> IF counted
              THEN [w EXCEPT !.accounts = DictSet(@, id, [DictGet(@, id) EXCEPT
                                                            !.failure_count = n]),
                             !.stats.account_failures[id] = n]
              ELSE w,
        rq |-> [rq EXCEPT !.pc = "done", !.finalized = @ + 1]]

\* what a SEND answered with status 200 delivers: how many objects the
\* decoder yields, what the first chunk with text is (normal content, a
\* thought or the notice of a skipped answer, or no text at all), and how the
\* stream ends
Responses ==
    {rsp \in [objects : {0, 1}, text : {"content", "other", "none"},
              ended : {"complete", "ValueError", "transport"}] :
        rsp.text # "none" => rsp.objects = 1}

\* a complete response with normal content
ContentResponse == [objects |-> 1, text |-> "content", ended |-> "complete"]

\* stream_chat_generator: account_manager.conversation_count += 1 is reached
\* when the first chunk with text is normal content
counts_conversation(text) == text = "content"

\* stream_chat_generator up to the end of the stream: the chunks set
\* request.state.first_response_time and count the conversation
receive(w, rq, rsp) ==
    LET id == rq.account_manager
        counted == counts_conversation(rsp.text) /\ DictHas(w.accounts, id)
    IN [w |-> IF counted
              THEN [w EXCEPT !.accounts = DictSet(@, id, [DictGet(@, id) EXCEPT
                                                !.conversation_count = @ + 1])]
              ELSE w,
        rq |-> [rq EXCEPT !.first_response_time = @ \/ rsp.text # "none"]]

\* finalize_result("success", 200, None) and the request ends
finalize_success(w, rq) ==
    LET id == rq.account_manager
    IN [w |-> IF DictHas(w.accounts, id)
              THEN [w EXCEPT !.stats.account_conversations[id] =
                                DictGet(w.accounts, id).conversation_count]
              ELSE w,
        rq |-> [rq EXCEPT !.pc = "done", !.finalized = @ + 1]]

RECURSIVE create_session_loop(_, _, _, _)
\* the session-creation loop of RESOLVE_SESSION from iteration rq.retry_idx up
\* to its next await (create_google_session) or to the end of the request
create_session_loop(w, rq, rnd, t) ==
    IF rq.retry_idx >= rq.max_retries
    THEN finalize_failure(w, rq)
    ELSE LET g == get_account_round_robin(w.accounts, w.counter, w.last,
                                          required_quota_types, t, rnd)
             w1 == [w EXCEPT !.accounts = g.accounts, !.counter = g.counter,
                             !.last = g.last]
         IN IF g.val # "503"
            THEN [w |-> w1, rq |-> [rq EXCEPT !.pc = "creating", !.account_manager = g.val]]
            ELSE LET w2 == [w1 EXCEPT !.accounts =
                                book_failure(@, rq.account_manager, 503, t)]
                 IN IF rq.retry_idx = rq.max_retries - 1
                    THEN finalize_failure(w2, rq)
                    ELSE create_session_loop(w2, [rq EXCEPT !.retry_idx = @ + 1], rnd, t)

\* the body of "async with session_lock" up to its first await or its end
resolve_session(w, rq, rnd, t) ==
    LET cached_session == get_session_cache(w.cache, rq.conv_key)
        hit == cached_session # NoBinding
        g == get_account_explicit(w.accounts, cached_session.account_id,
                                  required_quota_types, t)
        valid == hit /\ g.val \notin {"404", "503"}
        w1 == IF ~hit THEN w
              ELSE [w EXCEPT !.accounts = g.accounts,
                             !.cache = IF valid THEN @ ELSE DictDel(@, rq.conv_key)]
    IN IF valid
       THEN [w |-> w1,
             rq |-> [rq EXCEPT !.pc = "ready", !.account_manager = cached_session.account_id,
                               !.is_new_conversation = FALSE]]
       ELSE LET available_accounts ==
                    get_available_accounts(w1.accounts, required_quota_types, t)
                max_retries == Min(MAX_ACCOUNT_SWITCH_TRIES, Len(available_accounts.list))
            IN create_session_loop([w1 EXCEPT !.accounts = available_accounts.accounts],
                                   [rq EXCEPT !.max_retries = max_retries, !.retry_idx = 0],
                                   rnd, t)

\* if current_retry_mode: current_text = build_full_context_text(req.messages)
text_with_retry_mode(current_text, current_retry_mode) ==
    IF current_retry_mode THEN "full_context" ELSE current_text

\* one iteration of the retry loop once current_session is known: the next
\* await is upload_context_file when images are to be uploaded, else the SEND
upload_or_send(w, rq) ==
    IF rq.current_images /\ rq.current_file_ids = 0
    THEN [w |-> w, rq |-> [rq EXCEPT !.pc = "uploading"]]
    ELSE [w |-> w,
          rq |-> [rq EXCEPT !.pc = "sending", !.sends = @ + 1,
                            !.current_text =
                                text_with_retry_mode(@, rq.current_retry_mode)]]

\* the head of one iteration of the retry loop of response_wrapper: the next
\* await is create_google_session when the binding is gone
retry_loop_head(w, rq) ==
    LET cached == get_session_cache(w.cache, rq.conv_key)
    IN IF cached = NoBinding
       THEN [w |-> w, rq |-> [rq EXCEPT !.pc = "recreate"]]
       ELSE upload_or_send(w, [rq EXCEPT !.current_session = cached.session_id,
                                         !.session_account = cached.account_id])

max_retries_at_send_ignoring_pool(max_tries, n) == max_tries

\* response_wrapper: max_retries = min(MAX_ACCOUNT_SWITCH_TRIES, len(available_accounts))
max_retries_at_send(max_tries, n) == Min(max_tries, n)

\* the except branch of the retry loop of response_wrapper
send_failed(w, rq, status_code, rnd, t) ==
    LET w1 == [w EXCEPT !.accounts = book_failure(@, rq.account_manager, status_code, t)]
        g == get_account_round_robin(w1.accounts, w1.counter, w1.last,
                                     required_quota_types, t, rnd)
        w2 == [w1 EXCEPT !.accounts = g.accounts, !.counter = g.counter, !.last = g.last]
    IN IF rq.retry_idx < rq.max_retries - 1
       THEN IF g.val = "503" THEN finalize_failure(w2, rq)
            ELSE [w |-> w2, rq |-> [rq EXCEPT !.pc = "failover", !.new_account = g.val]]
       ELSE finalize_failure(w1, rq)

\* the step of request r ends: the shared state and its locals are stored
Commit(r, res) ==
    /\ res.w.counter <= MaxCounter
    /\ accounts' = res.w.accounts
    /\ request_counter' = res.w.counter
    /\ last_account_count' = res.w.last
    /\ global_session_cache' = res.w.cache
    /\ global_stats' = res.w.stats
    /\ next_session' = res.w.sessions
    /\ req' = [req EXCEPT ![r] = res.rq]

\* session_lock stays held only while the request awaits create_google_session
\* inside "async with session_lock"
Holder(r, rq) == IF rq.pc = "creating" THEN r ELSE 0

CreateOutcomes == {200, 429}
SendOutcomes == {200, 400, 429}

\* RESOLVE_SESSION begins: acquire_session_lock, then "async with
\* session_lock", which runs on at once when the lock is free
Arrive(r, rnd) ==
    /\ req[r].pc = "idle"
    /\ LET a == acquire_session_lock(session_locks, global_session_cache,
                                     req[r].conv_key, next_lock)
           owners == IF a.fresh THEN Append(lock_owner, 0) ELSE lock_owner
           rq == [req[r] EXCEPT !.session_lock = a.lock]
           res == resolve_session(World, rq, rnd, now)
       IN /\ session_locks' = a.locks
          /\ next_lock' = IF a.fresh THEN next_lock + 1 ELSE next_lock
          /\ IF owners[a.lock] = 0
             THEN /\ Commit(r, res)
                  /\ lock_owner' = [owners EXCEPT ![a.lock] = Holder(r, res.rq)]
             ELSE /\ req' = [req EXCEPT ![r] = [rq EXCEPT !.pc = "wait_lock"]]
                  /\ lock_owner' = owners
                  /\ UNCHANGED <<accounts, request_counter, last_account_count,
                                 global_session_cache, global_stats, next_session>>
    /\ ret' = NoRet
    /\ UNCHANGED <<configVars, mutexVars, multi_account_mgr, serviceVars, decoderVars, messageVars, now, account_list, histVars>>

\* the lock a request waits for is released: it enters "async with session_lock"
LockGranted(r, rnd) ==
    /\ req[r].pc = "wait_lock"
    /\ lock_owner[req[r].session_lock] = 0
    /\ LET res == resolve_session(World, req[r], rnd, now)
       IN /\ Commit(r, res)
          /\ lock_owner' = [lock_owner EXCEPT ![req[r].session_lock] = Holder(r, res.rq)]
    /\ ret' = NoRet
    /\ UNCHANGED <<configVars, mutexVars, multi_account_mgr, serviceVars, decoderVars, messageVars, now, account_list, session_locks, next_lock, histVars>>

\* create_google_session returns or raises inside RESOLVE_SESSION
CreateDone(r, outcome, rnd) ==
    /\ req[r].pc = "creating"
    /\ LET rq == req[r]
           stored == [World EXCEPT
                        !.cache = set_session_cache(@, rq.conv_key, rq.account_manager,
                                                    next_session, now),
                        !.sessions = @ + 1]
           failed == [World EXCEPT
                        !.accounts = book_failure(@, rq.account_manager, outcome, now)]
           res == IF outcome = 200
                  THEN [w |-> stored,
                        rq |-> [rq EXCEPT !.pc = "ready", !.is_new_conversation = TRUE]]
                  ELSE IF rq.retry_idx = rq.max_retries - 1
                  THEN finalize_failure(failed, rq)
                  ELSE create_session_loop(failed, [rq EXCEPT !.retry_idx = @ + 1], rnd, now)
       IN /\ Commit(r, res)
          /\ lock_owner' = [lock_owner EXCEPT ![rq.session_lock] =
                                IF @ = r THEN Holder(r, res.rq) ELSE @]
          /\ created' = IF outcome = 200 THEN created + 1 ELSE created
    /\ ret' = NoRet
    /\ UNCHANGED <<configVars, mutexVars, multi_account_mgr, serviceVars, decoderVars, messageVars, now, account_list, session_locks, next_lock,
                   failed_at, nfail, rr_sel, rr_hist>>

is_retry_mode_never(is_new_conversation) == FALSE

\* chat_impl: is_retry_mode is True for a new conversation, False for a
\* continued one
is_retry_mode(is_new_conversation) == is_new_conversation

\* response_wrapper starts: the retry budget is computed and the first
\* iteration runs to its first await
StartWrapper(r) ==
    /\ req[r].pc = "ready"
    /\ LET rq == req[r]
           touched == IF rq.is_new_conversation THEN global_session_cache
                      ELSE update_session_time(global_session_cache, rq.conv_key, now)
           available_accounts == get_available_accounts(accounts, required_quota_types, now)
           max_retries == max_retries_at_send(MAX_ACCOUNT_SWITCH_TRIES,
                                              Len(available_accounts.list))
           w == [World EXCEPT !.cache = touched, !.accounts = available_accounts.accounts]
           rq1 == [rq EXCEPT !.max_retries = max_retries, !.retry_idx = 0,
                             !.current_text = "last_text",
                             !.current_retry_mode = is_retry_mode(rq.is_new_conversation),
                             !.current_file_ids = 0,
                             !.selectable_at_send =
                                Cardinality({i \in DOMAIN accounts :
                                    Selectable(accounts[i], required_quota_types, now)})]
       IN Commit(r, IF max_retries = 0
                    THEN [w |-> w, rq |-> [rq1 EXCEPT !.pc = "done"]]
                    ELSE retry_loop_head(w, rq1))
    /\ ret' = NoRet
    /\ UNCHANGED <<configVars, mutexVars, multi_account_mgr, serviceVars, decoderVars, messageVars, now, account_list, session_locks, lock_owner, next_lock,
                   histVars>>

\* create_google_session returns or raises in response_wrapper after the
\* binding was found missing
RecreateDone(r, outcome, rnd) ==
    /\ req[r].pc = "recreate"
    /\ LET rq == req[r]
           stored == [World EXCEPT
                        !.cache = set_session_cache(@, rq.conv_key, rq.account_manager,
                                                    next_session, now),
                        !.sessions = @ + 1]
       IN Commit(r, IF outcome = 200
                    THEN upload_or_send(stored,
                            [rq EXCEPT !.current_session = next_session,
                                       !.session_account = rq.account_manager,
                                       !.current_retry_mode = TRUE,
                                       !.current_file_ids = 0])
                    ELSE send_failed(World, rq, outcome, rnd, now))
    /\ ret' = NoRet
    /\ UNCHANGED <<configVars, mutexVars, multi_account_mgr, serviceVars, decoderVars, messageVars, now, account_list, session_locks, lock_owner, next_lock,
                   histVars>>

\* upload_context_file returns the handles or raises
UploadDone(r, outcome, rnd) ==
    /\ req[r].pc = "uploading"
    /\ Commit(r, IF outcome = 200
                 THEN upload_or_send(World,
                        [req[r] EXCEPT !.current_file_ids = req[r].current_session])
                 ELSE send_failed(World, req[r], outcome, rnd, now))
    /\ ret' = NoRet
    /\ UNCHANGED <<configVars, mutexVars, multi_account_mgr, serviceVars, decoderVars, messageVars, now, account_list, session_locks, lock_owner, next_lock,
                   histVars>>

\* the status the SEND attempt ends with once the stream is over: a
\* ValueError of the decoder is logged and swallowed, and a response that
\* set no first_response_time is an "Empty response from upstream" (502)
status_after_stream(rsp, first_response_time) ==
    IF rsp.ended = "transport" THEN 0
    ELSE IF first_response_time THEN 200
    ELSE 502

\* SEND: stream_chat_generator is answered with status outcome and, for 200,
\* with the response rsp
SendDone(r, outcome, rsp, rnd) ==
    /\ req[r].pc = "sending"
    /\ \E got \in {receive(World, req[r], rsp)} :
        \E status \in {IF outcome = 200
                       THEN status_after_stream(rsp, got.rq.first_response_time)
                       ELSE outcome} :
            Commit(r, IF outcome # 200
                      THEN send_failed(World, req[r], outcome, rnd, now)
                      ELSE IF status = 200
                      THEN finalize_success(got.w, got.rq)
                      ELSE send_failed(got.w, got.rq, status, rnd, now))
    /\ ret' = NoRet
    /\ UNCHANGED <<configVars, mutexVars, multi_account_mgr, serviceVars, decoderVars, messageVars, now, account_list, session_locks, lock_owner, next_lock,
                   histVars>>

after_failover_keeping_files(rq) ==
    [rq EXCEPT !.account_manager = rq.new_account, !.current_retry_mode = TRUE]

\* response_wrapper after the binding was overwritten: account_manager =
\* new_account, current_retry_mode = True, current_file_ids = []
after_failover(rq) ==
    [rq EXCEPT !.account_manager = rq.new_account, !.current_retry_mode = TRUE,
               !.current_file_ids = 0]

\* a failed failover handled like a failed attempt on the new account
failover_failed_booking(w, rq, status_code, t) ==
    finalize_failure([w EXCEPT !.accounts = book_failure(@, rq.new_account, status_code, t)],
                     rq)

\* response_wrapper, "except Exception as create_err" of the failover: the
\* outcome is recorded and the generator returns
failover_failed(w, rq, status_code, t) == finalize_failure(w, rq)

\* failover: create_google_session on the newly selected account returns or raises
FailoverDone(r, outcome) ==
    /\ req[r].pc = "failover"
    /\ LET rq == req[r]
           stored == [World EXCEPT
                        !.cache = set_session_cache(@, rq.conv_key, rq.new_account,
                                                    next_session, now),
                        !.sessions = @ + 1]
       IN Commit(r, IF outcome = 200
                    THEN retry_loop_head(stored, [after_failover(rq) EXCEPT !.retry_idx = @ + 1])
                    ELSE failover_failed(World, rq, outcome, now))
    /\ ret' = NoRet
    /\ UNCHANGED <<configVars, mutexVars, multi_account_mgr, serviceVars, decoderVars, messageVars, now, account_list, session_locks, lock_owner, next_lock,
                   histVars>>

----------------------------------------------------------------------------
(* Concurrent requests on two conversations *)

RequestKeys == <<"k1", "k1", "k2">>

InitReq ==
    /\ InitCommon
    /\ LET m == load_multi_account_config(InitConfig, InitStats, 1)
       IN /\ accounts = lifespan_restore(m.accounts, InitStats)
          /\ account_list = m.account_list
    /\ req = [r \in DOMAIN RequestKeys |-> NewRequest(RequestKeys[r])]
    /\ MAX_ACCOUNT_SWITCH_TRIES = max_account_switch_tries
    /\ database_enabled = TRUE

NextReq ==
    \/ \E r \in DOMAIN req : Arrive(r, 0)
    \/ \E r \in DOMAIN req : LockGranted(r, 0)
    \/ \E r \in DOMAIN req, outcome \in CreateOutcomes : CreateDone(r, outcome, 0)
    \/ \E r \in DOMAIN req : StartWrapper(r)
    \/ \E r \in DOMAIN req, outcome \in CreateOutcomes : RecreateDone(r, outcome, 0)
    \/ \E r \in DOMAIN req, outcome \in SendOutcomes : SendDone(r, outcome, ContentResponse, 0)
    \/ \E r \in DOMAIN req, outcome \in CreateOutcomes : FailoverDone(r, outcome)

SpecReq == InitReq /\ [][NextReq]_vars

\* C3: requests of one conversation that find no binding create the upstream
\* session one at a time: no two of them are inside the session creation of
\* RESOLVE_SESSION at once, under every interleaving.
C3_CreationSerialized ==
    \A r1, r2 \in DOMAIN req :
        r1 # r2 /\ req[r1].conv_key = req[r2].conv_key
            => ~(req[r1].pc = "creating" /\ req[r2].pc = "creating")

----------------------------------------------------------------------------
(* The retry budget of one request over a pool of three accounts *)

SwitchTriesChoices == {2, max_account_switch_tries}

InitSend ==
    /\ InitCommon
    /\ LET m == load_multi_account_config(RoundRobinConfig, InitStats, 1)
       IN /\ accounts = lifespan_restore(m.accounts, InitStats)
          /\ account_list = m.account_list
    /\ req = <<NewRequest("k1")>>
    /\ MAX_ACCOUNT_SWITCH_TRIES \in SwitchTriesChoices
    /\ database_enabled = TRUE

NextSend ==
    \/ \E a \in AccountIds : DisableAccount(a)
    \/ \E r \in DOMAIN req, rnd \in 0..RandMax : Arrive(r, rnd)
    \/ \E r \in DOMAIN req, outcome \in CreateOutcomes, rnd \in 0..RandMax :
            CreateDone(r, outcome, rnd)
    \/ \E r \in DOMAIN req : StartWrapper(r)
    \/ \E r \in DOMAIN req, outcome \in SendOutcomes, rnd \in 0..RandMax :
            SendDone(r, outcome, ContentResponse, rnd)
    \/ \E r \in DOMAIN req, outcome \in CreateOutcomes : FailoverDone(r, outcome)

SpecSend == InitSend /\ [][NextSend]_vars

\* C5: a request performs at most min(configured_max, number of accounts
\* selectable when its SEND phase starts) SEND attempts.
C5_SendAttemptsBounded ==
    \A r \in DOMAIN req :
        req[r].sends <= Min(MAX_ACCOUNT_SWITCH_TRIES, req[r].selectable_at_send)

\* C5 witness: three selectable accounts, a configured maximum of 5, and the
\* request has ended after three SEND attempts
C5_Witness ==
    \E r \in DOMAIN req :
        /\ req[r].pc = "done"
        /\ MAX_ACCOUNT_SWITCH_TRIES = 5
        /\ req[r].selectable_at_send = 3
        /\ req[r].sends = 3

----------------------------------------------------------------------------
(* Failures booked on the cooldown ledger *)

\* 0 stands for a failure without an HTTP status (handle_non_http_error)
FailureStatusCodes == {0, 400, 429, 503}

NextFailure ==
    \/ Tick
    \/ \E a \in AccountIds, sc \in FailureStatusCodes, qt \in FailureQuotaTypes :
            RecordFailure(a, sc, qt)
    \/ \E qts \in QuotaTypeLists :
            GetAccountRoundRobin(qts, 0, PoolMaxCounter) /\ UNCHANGED <<rr_sel, rr_hist>>

SpecFailure == InitPool /\ [][NextFailure]_vars

\* the cooldown window of a capability
Window(c) ==
    IF c = "text" THEN TextWindow ELSE IF c = "images" THEN ImagesWindow ELSE VideosWindow

\* C11: record_failure with status 400 leaves the cooldown ledger unchanged;
\* with any other status, or none, it sets only the entry of the given
\* capability (text when the capability is missing or unknown) to the current
\* time; and a capability with a recorded failure is cooling down exactly while
\* less than its own window has passed, whatever the status was.
C11_FailureBooksOneEntry ==
    [][/\ \A a \in AccountIds, sc \in FailureStatusCodes, qt \in FailureQuotaTypes :
            RecordFailure(a, sc, qt) =>
                DictGet(accounts', a).quota_cooldowns =
                    IF sc = 400 THEN DictGet(accounts, a).quota_cooldowns
                    ELSE [DictGet(accounts, a).quota_cooldowns EXCEPT
                            ![IF qt \in QUOTA_TYPES THEN qt ELSE "text"] = now]
       /\ \A i \in DOMAIN accounts', c \in QUOTA_TYPES :
            failed_at'[accounts'[i].key][c] # 0 =>
                (is_quota_available(accounts'[i], c, now')
                    <=> now' - failed_at'[accounts'[i].key][c] >= Window(c))]_vars

\* C11 witness: a failure with a status other than 400 on an unknown
\* capability has just been booked on text
C11_Witness ==
    /\ ret.op = "record_failure"
    /\ ret.quota_types = <<"audio">>
    /\ DictGet(accounts, ret.account_id).quota_cooldowns =
            [NoCooldowns EXCEPT !["text"] = now]

(***************************************************************************)
(* Enabling and disabling accounts from the admin API, with and without    *)
(* the database.                                                           *)
(***************************************************************************)
IdSets == {{"a1"}, {"a1", "a2"}, {"a2", "a3"}}

\* bulk_set_disabled(ids, false)
BulkEnable(ids) ==
    /\ accounts' = admin_bulk_enable_accounts(accounts, ids, database_enabled)
    /\ ret' = NoRet
    /\ failed_at' = IF database_enabled
                    THEN [a \in AccountIds |-> IF a \in ids THEN NoCooldowns ELSE failed_at[a]]
                    ELSE failed_at
    /\ UNCHANGED <<configVars, mutexVars, multi_account_mgr, serviceVars, decoderVars, messageVars, now, account_list, request_counter, last_account_count, global_stats,
                   cacheVars, req, nfail, rr_sel, rr_hist, created>>

\* bulk_set_disabled(ids, true)
BulkDisable(ids) ==
    /\ accounts' = admin_bulk_disable_accounts(accounts, ids, database_enabled)
    /\ ret' = NoRet
    /\ UNCHANGED <<configVars, mutexVars, multi_account_mgr, serviceVars, decoderVars, messageVars, now, account_list, request_counter, last_account_count, global_stats,
                   cacheVars, req, histVars>>

InitAdmin ==
    /\ InitCommon
    /\ LET m == load_multi_account_config(InitConfig, InitStats, 1)
       IN /\ accounts = lifespan_restore(m.accounts, InitStats)
          /\ account_list = m.account_list
    /\ req = NoRequests
    /\ MAX_ACCOUNT_SWITCH_TRIES = max_account_switch_tries
    /\ database_enabled \in BOOLEAN

NextAdmin ==
    \/ Tick
    \/ \E a \in AccountIds, qt \in QUOTA_TYPES : RecordFailure(a, 429, qt)
    \/ \E a \in AccountIds : DisableAccount(a)
    \/ \E a \in AccountIds : EnableAccount(a)
    \/ \E ids \in IdSets : BulkEnable(ids)
    \/ \E ids \in IdSets : BulkDisable(ids)

SpecAdmin == InitAdmin /\ [][NextAdmin]_vars

\* after the step a pooled account has an empty cooldown ledger and, unless
\* expired, is listed for every capability list
EnabledAndClear(a) ==
    DictHas(accounts', a) =>
        /\ DictGet(accounts', a).quota_cooldowns = NoCooldowns
        /\ ~is_expired(DictGet(accounts', a), now') =>
               \A qts \in AllQuotaLists : a \in ListNow(qts)'

\* C12: set_disabled(id, false) and bulk_set_disabled(ids, false) leave every
\* targeted account with an empty cooldown ledger and, unless expired, offered
\* for every capability; set_disabled(id, true) leaves the account's cooldown
\* ledger and counters unchanged.
C12_EnableClearsCooldowns ==
    [][ /\ \A a \in AccountIds : EnableAccount(a) => EnabledAndClear(a)
        /\ \A ids \in IdSets : BulkEnable(ids) => \A a \in ids : EnabledAndClear(a)
        /\ \A a \in AccountIds :
              DisableAccount(a) /\ DictHas(accounts, a) =>
                  /\ DictGet(accounts', a).quota_cooldowns = DictGet(accounts, a).quota_cooldowns
                  /\ DictGet(accounts', a).conversation_count = DictGet(accounts, a).conversation_count
                  /\ DictGet(accounts', a).failure_count = DictGet(accounts, a).failure_count
      ]_vars

(***************************************************************************)
(* The task service: BaseTaskService with the login task of LoginService.  *)
(* Coroutines run on one event loop, so a step runs from one suspension    *)
(* point to the next; the per-account work runs in an executor thread.     *)
(***************************************************************************)
max_logs == 3   \* the cap of task.logs, 200 in the code
MaxItems == 1   \* account ids a task can hold
MaxCalls == 1   \* merges, cancellations of a running task and thread log lines

SafeMessages ==
    {"cancel requested:", "task cancelled", "task cancelled while pending",
     "login task cancelled:", "register task cancelled:"}

\* the messages of consecutive _append_log calls that get stored: all of them,
\* or those up to the first call that raises
Stored(task, messages) ==
    LET unsafe == {i \in DOMAIN messages :
                      task.cancel_requested /\ messages[i] \notin SafeMessages}
    IN IF unsafe = {} THEN messages
       ELSE SubSeq(messages, 1, CHOOSE i \in unsafe : \A j \in unsafe : i <= j)

\* _append_log keeping the oldest entries when the cap is passed
append_logs_keep_oldest(task, messages) ==
    [task |-> [task EXCEPT !.logs = SubSeq(@ \o Stored(task, messages), 1,
                                           Min(Len(@ \o Stored(task, messages)), max_logs)),
                           !.appended = @ \o Stored(task, messages)],
     raised |-> task.cancel_requested /\ \E i \in DOMAIN messages : messages[i] \notin SafeMessages]

\* BaseTaskService._append_log called for each of the messages in turn, up to
\* the first call that raises TaskCancelledError (which it does after storing
\* the entry): the task after and whether a call raised
append_logs(task, messages) ==
    [task |-> [task EXCEPT !.logs = LastN(@ \o Stored(task, messages), max_logs),
                           !.appended = @ \o Stored(task, messages)],
     raised |-> task.cancel_requested /\ \E i \in DOMAIN messages : messages[i] \notin SafeMessages]

\* BaseTaskService._append_log, one call
append_log(task, message) == append_logs(task, <<message>>)

\* LoginTask(id, account_ids) with count account ids
LoginTask(count) == [NoTask EXCEPT !.status = "pending", !.count = count]

\* LoginService._get_running_task: the first pending or running task of _tasks
get_running_task(tk) ==
    LET live == {t \in TaskIds : tk[t].status \in {"pending", "running"}}
    IN IF live = {} THEN 0 ELSE CHOOSE t \in live : \A u \in live : t <= u

\* the id a new task gets (uuid4: never used before)
FreshIds(tk) ==
    LET free == {t \in TaskIds : tk[t].status = "none"}
    IN {t \in free : \A u \in free : t <= u}

\* _run_one_task without its check of the task's status
run_one_task_head_any_status(tk, id) ==
    [tasks |-> [tk EXCEPT ![id] =
                   append_log([@ EXCEPT !.status = "running"], "task started").task],
     started |-> TRUE]

\* BaseTaskService._run_one_task up to its await: the tasks after and whether
\* the body was created
run_one_task_head(tk, id) ==
    IF tk[id].status # "pending"
    THEN [tasks |-> tk, started |-> FALSE]
    ELSE IF tk[id].cancel_requested
    THEN [tasks |-> [tk EXCEPT ![id].status = "cancelled", ![id].finished_at = now],
          started |-> FALSE]
    ELSE [tasks |-> [tk EXCEPT ![id] =
                        append_log([@ EXCEPT !.status = "running"], "task started").task],
          started |-> TRUE]

\* a queue served from its newest end
drop_stale_newest_first(tk, pend) ==
    [i \in 1..Len(pend) |-> pend[Len(pend) + 1 - i]]

RECURSIVE drop_stale(_, _)
\* _run_worker: ids at the head of the queue that are no longer pending are dropped
drop_stale(tk, pend) ==
    IF pend = <<>> \/ tk[Head(pend)].status = "pending"
    THEN pend
    ELSE drop_stale(tk, Tail(pend))

RECURSIVE worker_loop(_, _, _)
\* BaseTaskService._run_worker from the top of its loop to its next await or
\* to its end: next is the task it awaits (0: the worker ended)
worker_loop(tk, pend, cur) ==
    LET p == drop_stale(tk, pend)
    IN IF p = <<>>
       THEN [tasks |-> tk, pending |-> p, current |-> cur, next |-> 0]
       ELSE LET h == run_one_task_head(tk, Head(p))
            IN IF h.started
               THEN [tasks |-> h.tasks, pending |-> Tail(p), current |-> Head(p),
                     next |-> Head(p)]
               ELSE worker_loop(h.tasks, Tail(p), 0)

\* the element of a one-element set
The(S) == CHOOSE x \in S : TRUE

\* LoginService._run_login_async from the top of its for loop to its await:
\* the task after and the position of the body
iteration_head(task) ==
    IF task.cancel_requested
    THEN [task |-> [append_log(task, "login task cancelled:").task
                        EXCEPT !.status = "cancelled", !.finished_at = now],
          at |-> "returned"]
    ELSE The({ IF l.raised
               THEN [task |-> [l.task EXCEPT !.status = "cancelled", !.finished_at = now],
                     at |-> "returned"]
               ELSE [task |-> l.task, at |-> "awaiting"] :
               l \in {append_logs(task, <<"progress", "separator", "refresh", "separator">>)} })

\* LoginService._run_login_async after its for loop: the task after, the
\* position of the body and whether _current_task_id was cleared
login_finish(task) ==
    The(UNION { { IF l1.raised
                  THEN [task |-> l1.task, at |-> "TaskCancelledError", cleared |-> FALSE]
                  ELSE IF l2.raised
                  THEN [task |-> l2.task, at |-> "TaskCancelledError", cleared |-> TRUE]
                  ELSE [task |-> l2.task, at |-> "returned", cleared |-> TRUE] :
                  l2 \in {append_log(l1.task, "done")} } :
                l1 \in {append_log([task EXCEPT
                                       !.status = IF task.cancel_requested THEN "cancelled"
                                                  ELSE IF task.fail_count = 0 THEN "success"
                                                  ELSE "failed",
                                       !.finished_at = now],
                                   "login task finished")} })

\* LoginService._run_login_async from the return of run_in_executor on: the
\* result is booked and the loop goes on or ends
after_result(task, success) ==
    The({ IF l.raised
          THEN [task |-> l.task, at |-> "TaskCancelledError", cleared |-> FALSE]
          ELSE IF l.task.progress < l.task.count
          THEN [task |-> iteration_head(l.task).task, at |-> iteration_head(l.task).at,
                cleared |-> FALSE]
          ELSE login_finish(l.task) :
          l \in {append_logs([task EXCEPT !.progress = @ + 1,
                                          !.success_count = IF success THEN @ + 1 ELSE @,
                                          !.fail_count = IF success THEN @ ELSE @ + 1],
                             IF success
                             THEN <<"separator", "refreshed", "separator">>
                             ELSE <<"separator", "refresh failed", "error", "separator">>)} })

\* _run_one_task treating a cancellation as an ordinary error
status_after_body_failed(task, at) ==
    IF at \in {"CancelledError", "TaskCancelledError"}
    THEN append_log([task EXCEPT !.status = "failed", !.finished_at = now], "task cancelled").task
    ELSE task

\* BaseTaskService._run_one_task after its await: the except branches
status_after_body(task, at) ==
    IF at \in {"CancelledError", "TaskCancelledError"}
    THEN append_log([task EXCEPT !.cancel_requested = TRUE, !.status = "cancelled",
                                 !.finished_at = now], "task cancelled").task
    ELSE task

PoolUntouched ==
    /\ ret' = NoRet
    /\ UNCHANGED <<configVars, mutexVars, multi_account_mgr, decoderVars, messageVars, now, poolVars, cacheVars, req, histVars>>

\* LoginService.start_login with a non-empty list holding new_accounts ids
\* that the live task does not have yet
StartLogin(new_accounts) ==
    /\ entry = "start_login"
    /\ LET running == get_running_task(tasks)
       IN IF running # 0
          THEN /\ task_hist.calls < MaxCalls
               /\ tasks[running].count + new_accounts <= MaxItems
               /\ tasks' = [tasks EXCEPT ![running] =
                               append_log([@ EXCEPT !.count = @ + new_accounts],
                                          IF new_accounts > 0 THEN "accounts added"
                                          ELSE "accounts already there").task]
               /\ task_hist' = [task_hist EXCEPT !.calls = @ + 1]
               /\ UNCHANGED <<current_task_id, direct>>
          ELSE /\ new_accounts > 0
               /\ \E id \in FreshIds(tasks) :
                    /\ tasks' = [tasks EXCEPT ![id] =
                                    append_log(LoginTask(new_accounts), "created").task]
                    /\ current_task_id' = id
                    /\ direct' = [direct EXCEPT ![id] = "scheduled"]
               /\ UNCHANGED task_hist
    /\ UNCHANGED <<pending_task_ids, current_asyncio_task, worker_task, next_task, body,
                   must_cancel, threads, entry>>
    /\ PoolUntouched

\* a new task is registered and handed to BaseTaskService._enqueue_task
Enqueue(count) ==
    /\ entry = "enqueue"
    /\ \E id \in FreshIds(tasks) :
         /\ tasks' = [tasks EXCEPT ![id] = append_log(LoginTask(count), "created").task]
         /\ pending_task_ids' = Append(pending_task_ids, id)
         /\ task_hist' = [task_hist EXCEPT !.enqueued = Append(@, id)]
    /\ worker_task' = IF worker_task \in {"none", "done", "raised"} THEN "scheduled"
                      ELSE worker_task
    /\ UNCHANGED <<current_task_id, current_asyncio_task, next_task, direct, body,
                   must_cancel, threads, entry>>
    /\ PoolUntouched

\* cancel_task treating a task of any status as a pending one
cancel_task_any_status(task) ==
    [task EXCEPT !.cancel_requested = TRUE, !.status = "cancelled", !.finished_at = now]

\* BaseTaskService.cancel_task on a task that is neither pending nor running:
\* an unknown id gives None, a finished task is returned as it is
cancel_task_finished(task) == task

\* BaseTaskService.cancel_task
CancelTask(id) ==
    /\ \/ /\ tasks[id].status = "pending"
          /\ pending_task_ids' = SelectSeq(pending_task_ids, LAMBDA t : t # id)
          /\ tasks' = [tasks EXCEPT ![id] =
                          append_log([@ EXCEPT !.cancel_requested = TRUE,
                                               !.status = "cancelled",
                                               !.finished_at = now],
                                     "task cancelled while pending").task]
          /\ task_hist' = [task_hist EXCEPT !.cancelled_pending = @ \cup {id}]
          /\ UNCHANGED must_cancel
       \/ /\ tasks[id].status = "running"
          /\ task_hist.calls < MaxCalls
          /\ tasks' = [tasks EXCEPT ![id] =
                          append_log([@ EXCEPT !.cancel_requested = TRUE],
                                     "cancel requested:").task]
          /\ must_cancel' = IF /\ current_asyncio_task # 0
                               /\ body[current_asyncio_task] \in {"created", "awaiting"}
                            THEN must_cancel \cup {current_asyncio_task}
                            ELSE must_cancel
          /\ task_hist' = [task_hist EXCEPT !.cancelled_running = @ \cup {id},
                                            !.calls = @ + 1]
          /\ UNCHANGED pending_task_ids
       \/ /\ tasks[id].status \notin {"pending", "running"}
          /\ tasks' = [tasks EXCEPT ![id] = cancel_task_finished(@)]
          /\ UNCHANGED <<pending_task_ids, must_cancel, task_hist>>
    /\ UNCHANGED <<current_task_id, current_asyncio_task, worker_task, next_task, direct,
                   body, threads, entry>>
    /\ PoolUntouched

\* LoginService._run_task_directly runs up to the await in _run_one_task, or
\* to its end when the task is no longer pending
DirectRun(id) ==
    /\ direct[id] = "scheduled"
    /\ \E h \in {run_one_task_head(tasks, id)} :
          /\ tasks' = h.tasks
          /\ IF h.started
             THEN /\ direct' = [direct EXCEPT ![id] = "awaiting"]
                  /\ body' = [body EXCEPT ![id] = "created"]
                  /\ current_asyncio_task' = id
                  /\ task_hist' = [task_hist EXCEPT !.started = Append(@, id)]
                  /\ UNCHANGED current_task_id
             ELSE /\ direct' = [direct EXCEPT ![id] = "done"]
                  /\ current_task_id' = IF current_task_id = id THEN 0 ELSE current_task_id
                  /\ UNCHANGED <<body, current_asyncio_task, task_hist>>
    /\ UNCHANGED <<pending_task_ids, worker_task, next_task, must_cancel, threads, entry>>
    /\ PoolUntouched

\* the worker goes round its loop from (tk, bd, cur): it ends, or it starts the
\* next pending task and awaits it
WorkerGoesOn(tk, bd, cur) ==
    \E w \in {worker_loop(tk, pending_task_ids, cur)} :
       /\ tasks' = w.tasks
       /\ pending_task_ids' = w.pending
       /\ current_task_id' = w.current
       /\ next_task' = w.next
       /\ IF w.next = 0
          THEN /\ worker_task' = "done"
               /\ body' = bd
               /\ current_asyncio_task' = 0
               /\ UNCHANGED task_hist
          ELSE /\ worker_task' = "awaiting"
               /\ body' = [bd EXCEPT ![w.next] = "created"]
               /\ current_asyncio_task' = w.next
               /\ task_hist' = [task_hist EXCEPT !.started = Append(@, w.next)]

\* BaseTaskService._run_worker starts
WorkerRun ==
    /\ worker_task = "scheduled"
    /\ WorkerGoesOn(tasks, body, current_task_id)
    /\ UNCHANGED <<direct, must_cancel, threads, entry>>
    /\ PoolUntouched

\* the body coroutine takes its first step: Task.cancel() before it makes the
\* step raise CancelledError without running any of the body
BodyStart(id) ==
    /\ body[id] = "created"
    /\ IF id \in must_cancel
       THEN /\ body' = [body EXCEPT ![id] = "CancelledError"]
            /\ UNCHANGED <<tasks, threads>>
       ELSE \E l \in {append_log(tasks[id], "login started")} :
            \E h \in {iteration_head(l.task)} :
               IF l.raised
               THEN /\ tasks' = [tasks EXCEPT ![id] = l.task]
                    /\ body' = [body EXCEPT ![id] = "TaskCancelledError"]
                    /\ UNCHANGED threads
               ELSE /\ tasks' = [tasks EXCEPT ![id] = h.task]
                    /\ body' = [body EXCEPT ![id] = h.at]
                    /\ threads' = IF h.at = "awaiting" THEN threads \cup {id} ELSE threads
    /\ UNCHANGED <<pending_task_ids, current_task_id, current_asyncio_task, worker_task,
                   next_task, direct, must_cancel, entry, task_hist>>
    /\ PoolUntouched

ThreadOutcomes == {"success", "failure", "error", "TaskCancelledError"}

\* the body coroutine is resumed at its await of run_in_executor: with
\* CancelledError after Task.cancel(), otherwise with what _refresh_one gave
BodyResume(id, outcome) ==
    /\ body[id] = "awaiting"
    /\ IF id \in must_cancel
       THEN /\ body' = [body EXCEPT ![id] = "CancelledError"]
            /\ UNCHANGED <<tasks, threads, current_task_id>>
       ELSE /\ id \in threads
            /\ outcome = "TaskCancelledError" => tasks[id].cancel_requested
            /\ IF outcome = "TaskCancelledError"
               THEN /\ tasks' = [tasks EXCEPT ![id].status = "cancelled",
                                              ![id].finished_at = now]
                    /\ body' = [body EXCEPT ![id] = "returned"]
                    /\ threads' = threads \ {id}
                    /\ UNCHANGED current_task_id
               ELSE \E r \in {after_result(tasks[id], outcome = "success")} :
                       /\ tasks' = [tasks EXCEPT ![id] = r.task]
                       /\ threads' = IF r.at = "awaiting" THEN threads ELSE threads \ {id}
                       /\ body' = [body EXCEPT ![id] = r.at]
                       /\ current_task_id' = IF r.cleared THEN 0 ELSE current_task_id
    /\ UNCHANGED <<pending_task_ids, current_asyncio_task, worker_task, next_task, direct,
                   must_cancel, entry, task_hist>>
    /\ PoolUntouched

\* _refresh_one logs from its thread (log_cb); a TaskCancelledError it meets
\* stays in the thread
ThreadLog(id) ==
    /\ id \in threads
    /\ task_hist.calls < MaxCalls
    /\ tasks' = [tasks EXCEPT ![id] = append_log(@, "refresh step").task]
    /\ task_hist' = [task_hist EXCEPT !.calls = @ + 1]
    /\ UNCHANGED <<pending_task_ids, current_task_id, current_asyncio_task, worker_task,
                   next_task, direct, body, must_cancel, threads, entry>>
    /\ PoolUntouched

\* a _refresh_one call whose awaiting body was cancelled comes to its end
ThreadEnd(id) ==
    /\ id \in threads
    /\ body[id] # "awaiting"
    /\ threads' = threads \ {id}
    /\ UNCHANGED <<tasks, pending_task_ids, current_task_id, current_asyncio_task,
                   worker_task, next_task, direct, body, must_cancel, entry, task_hist>>
    /\ PoolUntouched

\* the body coroutine ends with an exception that is neither CancelledError
\* nor TaskCancelledError (as _execute_task of the base class does)
BodyRaises(id) ==
    /\ body[id] \in {"created", "awaiting"}
    /\ id \notin must_cancel
    /\ body' = [body EXCEPT ![id] = "Exception"]
    /\ threads' = threads \ {id}
    /\ UNCHANGED <<tasks, pending_task_ids, current_task_id, current_asyncio_task,
                   worker_task, next_task, direct, must_cancel, entry, task_hist>>
    /\ PoolUntouched

BodyEnded(id) ==
    body[id] \in {"returned", "CancelledError", "TaskCancelledError", "Exception"}

\* BaseTaskService._run_one_task, "except Exception as exc": the task fails
\* and the error is logged; raised tells whether _append_log raised
\* TaskCancelledError out of the handler
task_error(task) ==
    append_log([task EXCEPT !.status = "failed", !.finished_at = now], "task error")

\* _run_one_task after its await: the task after and whether an exception
\* leaves _run_one_task
after_body(task, at) ==
    IF at = "Exception" THEN task_error(task)
    ELSE [task |-> status_after_body(task, at), raised |-> FALSE]

\* BaseTaskService._run_one_task goes on after its await, and with it the
\* coroutine that awaited it: _run_task_directly ends, _run_worker goes round
RunOneTaskResume(id) ==
    /\ BodyEnded(id)
    /\ \E tk \in {[tasks EXCEPT ![id] = after_body(@, body[id]).task]},
          raised \in {after_body(tasks[id], body[id]).raised},
          bd \in {[body EXCEPT ![id] = "done"]},
          cur \in {IF current_task_id = id THEN 0 ELSE current_task_id} :
          \/ /\ direct[id] = "awaiting"
             /\ tasks' = tk
             /\ body' = bd
             /\ current_task_id' = cur
             /\ current_asyncio_task' = 0
             /\ direct' = [direct EXCEPT ![id] = "done"]
             /\ UNCHANGED <<pending_task_ids, worker_task, next_task, task_hist>>
          \/ /\ worker_task = "awaiting" /\ next_task = id
             /\ ~raised
             /\ WorkerGoesOn(tk, bd, cur)
             /\ UNCHANGED direct
          \* the exception leaves _run_one_task and ends _run_worker, which
          \* has no handler
          \/ /\ worker_task = "awaiting" /\ next_task = id
             /\ raised
             /\ tasks' = tk
             /\ body' = bd
             /\ current_asyncio_task' = 0
             /\ worker_task' = "raised"
             /\ next_task' = 0
             /\ UNCHANGED <<pending_task_ids, current_task_id, direct, task_hist>>
    /\ UNCHANGED <<must_cancel, threads, entry>>
    /\ PoolUntouched

InitTasks ==
    /\ \E e \in {"start_login", "enqueue"} : IdleService(e)
    /\ IdleDecoder
    /\ IdleFingerprint
    /\ InitNoPool

NextTasks ==
    \/ \E n \in 0..1 : StartLogin(n)
    \/ \E count \in 1..MaxItems : Enqueue(count)
    \/ \E id \in TaskIds : CancelTask(id)
    \/ \E id \in TaskIds : DirectRun(id)
    \/ WorkerRun
    \/ \E id \in TaskIds : BodyStart(id)
    \/ \E id \in TaskIds, outcome \in ThreadOutcomes : BodyResume(id, outcome)
    \/ \E id \in TaskIds : ThreadLog(id)
    \/ \E id \in TaskIds : ThreadEnd(id)
    \/ \E id \in TaskIds : RunOneTaskResume(id)

SpecTasks == InitTasks /\ [][NextTasks]_vars

RunningTasks == {t \in TaskIds : tasks[t].status = "running"}
WasStarted(t) == t \in Range(task_hist.started)

\* C13: at most one task is running at any time, and the tasks taken from the
\* pending queue start in the order they were enqueued, the only ones passed
\* over being those cancelled while pending.
C13_OneRunningFifo ==
    /\ Cardinality(RunningTasks) <= 1
    /\ entry = "enqueue" =>
         /\ task_hist.started = SelectSeq(task_hist.enqueued, WasStarted)
         /\ \A i, j \in DOMAIN task_hist.enqueued :
               (i < j /\ WasStarted(task_hist.enqueued[j]) /\ ~WasStarted(task_hist.enqueued[i]))
                   => task_hist.enqueued[i] \in task_hist.cancelled_pending

C13_Witness ==
    /\ entry = "enqueue"
    /\ task_hist.started = <<1, 3>>
    /\ 2 \in task_hist.cancelled_pending

\* C14: cancel(id) on a pending task takes the id out of the pending queue and
\* sets the task to cancelled with a finish time in that step, and no worker
\* runs the task's body afterwards.
C14_PendingCancelNeverRuns ==
    [][ \A id \in TaskIds :
          /\ (CancelTask(id) /\ tasks[id].status = "pending") =>
                 /\ id \notin Range(pending_task_ids')
                 /\ tasks'[id].status = "cancelled"
                 /\ tasks'[id].finished_at # 0
          /\ id \in task_hist.cancelled_pending =>
                 /\ body'[id] = "none"
                 /\ tasks'[id].status = "cancelled"
      ]_vars

C14_Witness ==
    \E id \in task_hist.cancelled_pending :
        /\ direct[id] = "done"
        /\ \E other \in TaskIds : other > id /\ WasStarted(other)

\* a login service driven through start_login, as main.py drives it
InitLogin ==
    /\ IdleService("start_login")
    /\ IdleDecoder
    /\ IdleFingerprint
    /\ InitNoPool

NextLogin ==
    \/ \E n \in 0..1 : StartLogin(n)
    \/ \E id \in TaskIds : CancelTask(id)
    \/ \E id \in TaskIds : DirectRun(id)
    \/ \E id \in TaskIds : BodyStart(id)
    \/ \E id \in TaskIds, outcome \in ThreadOutcomes : BodyResume(id, outcome)
    \/ \E id \in TaskIds : RunOneTaskResume(id)

\* the event loop runs every coroutine that is ready to go on
FairLogin ==
    \A id \in TaskIds :
        /\ WF_vars(BodyStart(id))
        /\ WF_vars(\E outcome \in ThreadOutcomes : BodyResume(id, outcome))
        /\ WF_vars(RunOneTaskResume(id))

SpecLoginFair == InitLogin /\ [][NextLogin]_vars /\ FairLogin

C16_LogKeepsNewest ==
    \A t \in TaskIds :
        LET logs == tasks[t].logs
            all == tasks[t].appended
        IN /\ Len(logs) <= max_logs
           /\ Len(logs) = Min(Len(all), max_logs)
           /\ \A i \in 1..Len(logs) : logs[i] = all[Len(all) - Len(logs) + i]

C16_Witness ==
    \E t \in TaskIds :
        /\ Len(tasks[t].appended) > max_logs + 1
        /\ tasks[t].cancel_requested

(***************************************************************************)
(* The stream decoder: parse_json_array_stream and its async twin, which   *)
(* run the same loop.  The characters of the lines are consumed one by     *)
(* one; a line end carries no state, so the text is kept as one sequence.  *)
(***************************************************************************)
MaxObjects == 2

QUOTE == "\""
BACKSLASH == "\\"

\* {"a":1}
PlainObject == <<"{", QUOTE, "a", QUOTE, ":", "1", "}">>
\* {"a":"}{"}
BracesInString == <<"{", QUOTE, "a", QUOTE, ":", QUOTE, "}", "{", QUOTE, "}">>
\* {"a":"\"}"}
EscapedQuote == <<"{", QUOTE, "a", QUOTE, ":", QUOTE, BACKSLASH, QUOTE, "}", QUOTE, "}">>
\* {"a":"\\"}
EscapedBackslash == <<"{", QUOTE, "a", QUOTE, ":", QUOTE, BACKSLASH, BACKSLASH, QUOTE, "}">>
\* {"a":{}}
NestedObject == <<"{", QUOTE, "a", QUOTE, ":", "{", "}", "}">>

ObjectTexts == {PlainObject, BracesInString, EscapedQuote, EscapedBackslash, NestedObject}

\* json.loads(obj_str, strict=False) succeeds: of the pieces of the texts
\* above that start and end with a brace, these are the JSON objects
json_loads_ok(obj_str) == obj_str \in ObjectTexts \cup {<<"{", "}">>}

RECURSIVE Join(_)
Join(objs) ==
    IF objs = <<>> THEN <<>>
    ELSE IF Len(objs) = 1 THEN Head(objs)
    ELSE Head(objs) \o <<",">> \o Join(Tail(objs))

\* the array as the upstream sends it
ArrayText(objs) == <<"[">> \o Join(objs) \o <<"]">>

\* braces are counted
counts_braces_always(in_string) == TRUE

\* if not in_string: braces are counted outside strings only
counts_braces(in_string) == ~in_string

\* an object is taken to be complete at the separator after its closing brace
object_complete_at_separator(char, level, buf) ==
    char \in {",", "]"} /\ level = 0 /\ buf # <<>>

\* if char == '}': ... if brace_level == 0 and buffer
object_complete(char, level, buf) ==
    char = "}" /\ level = 0 /\ buf # <<>>

\* the loop body of parse_json_array_stream for one character
step(p, char) ==
    LET q == [p EXCEPT !.pos = @ + 1]
        kept == IF p.brace_level > 0 THEN Append(p.buffer, char) ELSE p.buffer
    IN IF p.escape_next
       THEN [q EXCEPT !.buffer = kept, !.escape_next = FALSE]
       ELSE IF char = BACKSLASH
       THEN [q EXCEPT !.buffer = kept, !.escape_next = TRUE]
       ELSE IF char = QUOTE /\ p.brace_level > 0
       THEN [q EXCEPT !.in_string = ~p.in_string, !.buffer = Append(p.buffer, char)]
       ELSE IF counts_braces(p.in_string)
       THEN LET buf0 == IF char = "{" /\ p.brace_level = 0 THEN <<>> ELSE p.buffer
                lvl1 == IF char = "{" THEN p.brace_level + 1 ELSE p.brace_level
                buf1 == IF lvl1 > 0 THEN Append(buf0, char) ELSE buf0
                lvl2 == IF char = "}" THEN lvl1 - 1 ELSE lvl1
            IN IF object_complete(char, lvl2, buf1)
               THEN IF json_loads_ok(buf1)
                    THEN [q EXCEPT !.brace_level = lvl2, !.buffer = <<>>, !.in_string = FALSE,
                                   !.yielded = Append(@, buf1)]
                    ELSE [q EXCEPT !.brace_level = lvl2, !.buffer = <<>>, !.in_string = FALSE,
                                   !.at = "ValueError"]
               ELSE [q EXCEPT !.brace_level = lvl2, !.buffer = buf1]
       ELSE [q EXCEPT !.buffer = kept]

\* the end of the input raises when an object is open
end_of_input_strict(p) ==
    [p EXCEPT !.at = IF p.brace_level # 0 THEN "ValueError" ELSE "returned"]

\* after the loop: if brace_level != 0: print(warning)
end_of_input(p) ==
    [p EXCEPT !.at = "returned", !.warned = p.brace_level # 0]

DecoderOnly ==
    /\ ret' = NoRet
    /\ UNCHANGED <<configVars, mutexVars, multi_account_mgr, serviceVars, messageVars, now, poolVars, cacheVars, req, histVars,
                   stream>>

\* the first loop: the line that starts with '[' is looked for
FindArray ==
    /\ parser.at = "start"
    /\ parser' = IF stream.text # <<>> /\ Head(stream.text) = "["
                 THEN [parser EXCEPT !.at = "scanning", !.pos = 1]
                 ELSE [parser EXCEPT !.at = "ValueError"]
    /\ DecoderOnly

\* one character is consumed; an object it completes is yielded
Step ==
    /\ parser.at = "scanning"
    /\ parser.pos < Len(stream.text)
    /\ parser' = step(parser, stream.text[parser.pos + 1])
    /\ DecoderOnly

\* the line iterator is exhausted
EndOfInput ==
    /\ parser.at = "scanning"
    /\ parser.pos = Len(stream.text)
    /\ parser' = end_of_input(parser)
    /\ DecoderOnly

InitDecoder ==
    /\ IdleService("start_login")
    /\ IdleFingerprint
    /\ InitNoPool
    /\ \E objs \in UNION {[1..n -> ObjectTexts] : n \in 0..MaxObjects} :
         \E cut \in 0..Len(ArrayText(objs)) :
            stream = [text |-> SubSeq(ArrayText(objs), 1, cut), objects |-> objs]
    /\ parser = [NoParser EXCEPT !.at = "start"]

NextDecoder == FindArray \/ Step \/ EndOfInput

SpecDecoder == InitDecoder /\ [][NextDecoder]_vars

RECURSIVE EndOf(_)
\* the place in the text of the closing brace of the k-th object
EndOf(k) == IF k = 0 THEN 0 ELSE EndOf(k - 1) + Len(stream.objects[k]) + 1

\* the objects whose closing brace is among the first n characters
ClosedBy(n) ==
    SubSeq(stream.objects, 1, Cardinality({k \in DOMAIN stream.objects : EndOf(k) <= n}))

RECURSIVE BackslashesBefore(_)
BackslashesBefore(i) ==
    IF i > 1 /\ stream.text[i - 1] = BACKSLASH THEN 1 + BackslashesBefore(i - 1) ELSE 0

\* the character at i is escaped by a backslash
Escaped(i) == BackslashesBefore(i) % 2 = 1

\* the character at i lies inside a string: an odd number of quotes that are
\* not escaped come before it
InsideString(i) ==
    Cardinality({j \in 1..(i - 1) : stream.text[j] = QUOTE /\ ~Escaped(j)}) % 2 = 1

\* C17: the brace depth changes exactly at the braces outside strings; a quote
\* after a backslash inside a string neither ends the string nor changes the
\* depth; the objects yielded are those whose closing brace was consumed, in
\* input order.
C17_BracesOutsideStringsOnly ==
    [][ Step =>
          LET i == parser'.pos
              char == stream.text[i]
          IN /\ (parser'.brace_level # parser.brace_level)
                    <=> (char \in {"{", "}"} /\ ~InsideString(i))
             /\ (char = QUOTE /\ InsideString(i) /\ Escaped(i)) =>
                    /\ parser'.in_string
                    /\ parser'.brace_level = parser.brace_level
             /\ parser'.yielded = ClosedBy(i)
             /\ parser'.at = "scanning"
      ]_vars

C17_Witness ==
    /\ parser.yielded = <<EscapedQuote, BracesInString>>
    /\ parser.at = "returned"

\* C18: an object is yielded by the step that consumes its closing brace,
\* before any later character is consumed and whether or not one follows.
C18_YieldedAtClosingBrace ==
    [][ \A k \in DOMAIN stream.objects :
          (Step /\ parser'.pos = EndOf(k)) =>
              /\ Len(parser.yielded) = k - 1
              /\ parser'.yielded = Append(parser.yielded, stream.objects[k])
      ]_vars

C18_Witness ==
    /\ parser.at = "scanning"
    /\ parser.pos = Len(stream.text)
    /\ Len(parser.yielded) = 2
    /\ EndOf(2) = parser.pos

\* C19: when the input ends inside an object the decoder returns without an
\* error, having yielded exactly the objects whose closing brace it saw, and
\* warns.
C19_TruncationOnlyWarns ==
    /\ parser.at = "ValueError" => stream.text = <<>>
    /\ (parser.at = "scanning" /\ parser.pos = Len(stream.text) /\ parser.brace_level # 0) =>
           end_of_input(parser).at = "returned"
    /\ (parser.at = "returned" /\ parser.brace_level # 0) =>
           /\ parser.warned
           /\ parser.yielded = ClosedBy(Len(stream.text))

C19_Witness ==
    /\ parser.at = "returned"
    /\ parser.brace_level = 2
    /\ Len(parser.yielded) = 1

(***************************************************************************)
(* The conversation fingerprint: get_conversation_key.  A string is a      *)
(* sequence of characters; the roles "user" and "system" are written "u"   *)
(* and "s".  The digest is kept as the string it is taken of, so that two  *)
(* keys are equal exactly when the digested strings are: no collision.     *)
(***************************************************************************)
MaxMsgs == 4

Roles == {<<"u">>, <<"s">>}

\* content is a string, or a list of typed parts of which the text parts count
Contents ==
    { [is_list |-> FALSE, parts |-> <<[type |-> "text", text |-> <<"a">>]>>],
      [is_list |-> TRUE, parts |-> <<[type |-> "text", text |-> <<" ">>],
                                     [type |-> "image_url", text |-> <<"b">>],
                                     [type |-> "text", text |-> <<"A">>]>>],
      [is_list |-> FALSE, parts |-> <<[type |-> "text", text |-> <<"a", "|", "u", ":", "a">>]>>] }

ClientIdentifiers == {<<>>, <<"c">>}

ChatRequests ==
    [client_identifier : ClientIdentifiers,
     messages : UNION {[1..n -> [role : Roles, content : Contents]] : n \in 0..MaxMsgs}]

RECURSIVE extract_text_from_parts(_)
extract_text_from_parts(parts) ==
    IF parts = <<>> THEN <<>>
    ELSE (IF Head(parts).type = "text" THEN Head(parts).text ELSE <<>>)
             \o extract_text_from_parts(Tail(parts))

extract_text_from_content(content) ==
    IF content.is_list THEN extract_text_from_parts(content.parts) ELSE content.parts[1].text

RECURSIVE lstrip(_)
lstrip(text) == IF text # <<>> /\ Head(text) = " " THEN lstrip(Tail(text)) ELSE text

RECURSIVE rstrip(_)
rstrip(text) ==
    IF text # <<>> /\ text[Len(text)] = " " THEN rstrip(SubSeq(text, 1, Len(text) - 1)) ELSE text

strip(text) == rstrip(lstrip(text))

lower(text) == [i \in DOMAIN text |-> IF text[i] = "A" THEN "a" ELSE text[i]]

\* text = text.strip().lower()
normalized_text(msg) == lower(strip(extract_text_from_content(msg.content)))

\* f"{role}:{text}"
message_fingerprint(msg) == msg.role \o <<":">> \o normalized_text(msg)

RECURSIVE join(_, _)
join(sep, strings) ==
    IF strings = <<>> THEN <<>>
    ELSE IF Len(strings) = 1 THEN Head(strings)
    ELSE Head(strings) \o sep \o join(sep, Tail(strings))

get_conversation_key(messages, client_identifier) ==
    IF messages = <<>>
    THEN [md5 |-> FALSE,
          of |-> IF client_identifier # <<>>
                 THEN client_identifier \o <<":", "e", "m", "p", "t", "y">>
                 ELSE <<"e", "m", "p", "t", "y">>]
    ELSE LET first == SubSeq(messages, 1, Min(3, Len(messages)))
             conversation_prefix ==
                 join(<<"|">>, [i \in DOMAIN first |-> message_fingerprint(first[i])])
         IN [md5 |-> TRUE,
             of |-> IF client_identifier # <<>>
                    THEN client_identifier \o <<"|">> \o conversation_prefix
                    ELSE conversation_prefix]

\* the key of a request is computed (chat: conv_key = get_conversation_key(...))
ComputeKey ==
    /\ fp_key = NoKey
    /\ fp_key' = get_conversation_key(fp_request.messages, fp_request.client_identifier)
    /\ ret' = NoRet
    /\ UNCHANGED <<configVars, mutexVars, multi_account_mgr, serviceVars, decoderVars, now, poolVars, cacheVars, req, histVars,
                   fp_request>>

InitFingerprint ==
    /\ IdleService("start_login")
    /\ IdleDecoder
    /\ InitNoPool
    /\ fp_request \in ChatRequests
    /\ fp_key = NoKey

NextFingerprint == ComputeKey

SpecFingerprint == InitFingerprint /\ [][NextFingerprint]_vars

\* the client identifier and the (role, trimmed lower-cased text) pairs of the
\* first min(3, n) messages
Basis(r) ==
    <<r.client_identifier,
      [i \in 1..Min(3, Len(r.messages)) |-> <<r.messages[i].role, normalized_text(r.messages[i])>>]>>

KeyOf == [r \in ChatRequests |-> get_conversation_key(r.messages, r.client_identifier)]

BasisOf == [r \in ChatRequests |-> Basis(r)]

\* C20: two requests have the same fingerprint exactly when they agree in the
\* client identifier and in the (role, normalized text) pairs of their first
\* min(3, n) messages (the digest being free of collisions).
C20_FingerprintOfBasis ==
    fp_key # NoKey =>
        \A r \in ChatRequests : (BasisOf[r] = BasisOf[fp_request]) <=> (KeyOf[r] = fp_key)

\* requests that agree in the client identifier and the pairs have the same key
C20_SameBasisSameKey ==
    fp_key # NoKey =>
        \A r \in ChatRequests : (BasisOf[r] = BasisOf[fp_request]) => (KeyOf[r] = fp_key)

C20_Witness ==
    /\ fp_key # NoKey
    /\ Len(fp_request.messages) = MaxMsgs
    /\ \E r \in ChatRequests :
          /\ Len(r.messages) = MaxMsgs
          /\ r.messages[MaxMsgs] # fp_request.messages[MaxMsgs]
          /\ KeyOf[r] = fp_key

(***************************************************************************)
(* Loading a configuration that names an id twice.  Neither the            *)
(* environment source of load_accounts_from_source nor update_accounts_    *)
(* config looks at the ids of the records before add_account is called.    *)
(***************************************************************************)
RepeatedIdConfig ==
    <<Cfg("a1", FALSE, 0, FALSE, NoCooldowns, Absent),
      Cfg("a3", FALSE, 0, FALSE, NoCooldowns, Absent),
      Cfg("a1", TRUE, 0, TRUE, [NoCooldowns EXCEPT !["text"] = 1], 1)>>

LoadableConfigs == ReloadConfigs \cup {RepeatedIdConfig}

NextLoad ==
    \/ Tick
    \/ \E accounts_data \in LoadableConfigs : Reload(accounts_data)
    \/ \E a \in AccountIds, qt \in QUOTA_TYPES : RecordFailure(a, 429, qt)
    \/ \E a \in AccountIds : DisableAccount(a)

SpecLoad == InitPool /\ [][NextLoad]_vars

\* C21: the ordered id list and the keys of the id-to-account mapping hold
\* the same ids, and each id is in the list exactly once.
C21_ListAgreesWithKeys ==
    /\ Range(account_list) = PoolIds(accounts)
    /\ \A i, j \in DOMAIN account_list : account_list[i] = account_list[j] => i = j

\* a configuration with a repeated id has been loaded
C21_Witness ==
    /\ ret.op = "reload"
    /\ Len(account_list) = 3
    /\ Len(accounts) = 2
    /\ DictGet(accounts, "a1").disabled

(***************************************************************************)
(* One conversation, two requests: the first carries an image, the second  *)
(* arrives while or after the first is served.  Every upstream call may    *)
(* succeed or fail, and a SEND answered with 200 may deliver any response. *)
(***************************************************************************)
UploadOutcomes == {200, 429}
\* 0 stands for a transport failure (httpx.HTTPError, ssl.SSLError)
SendStatuses == {0, 200, 400, 429}

InitChat ==
    /\ InitCommon
    /\ LET m == load_multi_account_config(InitConfig, InitStats, 1)
       IN /\ accounts = lifespan_restore(m.accounts, InitStats)
          /\ account_list = m.account_list
    /\ req = <<NewImageRequest("k1"), NewRequest("k1")>>
    /\ MAX_ACCOUNT_SWITCH_TRIES = max_account_switch_tries
    /\ database_enabled = TRUE

NextChat ==
    \/ \E r \in DOMAIN req : Arrive(r, 0)
    \/ \E r \in DOMAIN req : LockGranted(r, 0)
    \/ \E r \in DOMAIN req, outcome \in CreateOutcomes : CreateDone(r, outcome, 0)
    \/ \E r \in DOMAIN req : StartWrapper(r)
    \/ \E r \in DOMAIN req, outcome \in UploadOutcomes : UploadDone(r, outcome, 0)
    \/ \E r \in DOMAIN req, outcome \in SendStatuses \ {200} :
            SendDone(r, outcome, ContentResponse, 0)
    \/ \E r \in DOMAIN req, rsp \in Responses : SendDone(r, 200, rsp, 0)
    \/ \E r \in DOMAIN req, outcome \in CreateOutcomes : FailoverDone(r, outcome)

SpecChat == InitChat /\ [][NextChat]_vars

\* the binding of the conversation of request r
BindingOf(r) == get_session_cache(global_session_cache, req[r].conv_key)

\* request r takes a step from the await at to the await next
Moves(r, at, next) == req[r].pc = at /\ req'[r].pc \in next

\* C22: on RETRY after a failed SEND the account selected for the next attempt
\* differs from the account whose attempt failed; a new session is created on
\* it and the binding of the conversation holds the new (account, session)
\* pair before the next SEND.
C22_RetryOnDifferentAccount ==
    [][ \A r \in DOMAIN req :
          /\ Moves(r, "sending", {"failover"}) =>
                req'[r].new_account # req[r].account_manager
          /\ Moves(r, "failover", {"uploading", "sending"}) =>
                /\ req'[r].account_manager = req[r].new_account
                /\ next_session' = next_session + 1
                /\ BindingOf(r)'.account_id = req[r].new_account
                /\ BindingOf(r)'.session_id = next_session
                /\ req'[r].current_session = next_session
      ]_vars

\* the retry after SEND failures other than a 400 rejection
C22_RetryOnDifferentAccountUnless400 ==
    [][ \A r \in DOMAIN req :
          /\ (Moves(r, "sending", {"failover"})
                /\ ~(\E rnd \in 0..RandMax : SendDone(r, 400, ContentResponse, rnd))) =>
                req'[r].new_account # req[r].account_manager
          /\ Moves(r, "failover", {"uploading", "sending"}) =>
                /\ req'[r].account_manager = req[r].new_account
                /\ next_session' = next_session + 1
                /\ BindingOf(r)'.account_id = req[r].new_account
                /\ BindingOf(r)'.session_id = next_session
                /\ req'[r].current_session = next_session
      ]_vars

\* a SEND was rejected with 400 and the request is about to create a session
\* on the account it selected for the retry
C22_Witness ==
    \E r \in DOMAIN req :
        /\ req[r].pc = "failover"
        /\ req[r].new_account = req[r].account_manager

\* C23: a SEND issued after a failover carries the full reconstructed
\* conversation, and the attachment handles it carries were uploaded to the
\* session it is sent on: the handles of the earlier session are dropped at the
\* failover and the attachments are uploaded again before the SEND.
C23_FailoverResendsAll ==
    [][ \A r \in DOMAIN req :
          /\ Moves(r, "failover", {"uploading", "sending"}) =>
                /\ req'[r].current_file_ids = 0
                /\ req'[r].current_images => req'[r].pc = "uploading"
          /\ (Moves(r, "failover", {"sending"}) \/ Moves(r, "uploading", {"sending"}))
             /\ req'[r].retry_idx > 0 =>
                /\ req'[r].current_text = "full_context"
                /\ req'[r].current_file_ids \in {0, req'[r].current_session}
                /\ req'[r].current_images =>
                        req'[r].current_file_ids = req'[r].current_session
      ]_vars

\* the second SEND of the request with an image is under way on the session
\* created at the failover, after a first SEND with handles of another session
C23_Witness ==
    /\ req[1].pc = "sending"
    /\ req[1].sends = 2
    /\ req[1].retry_idx = 1
    /\ req[1].current_file_ids = req[1].current_session
    /\ req[1].current_session = BindingOf(1).session_id
    /\ req[1].current_session > 1

\* the binding of request r's conversation passes the validation of
\* RESOLVE_SESSION
ValidBinding(r) ==
    /\ BindingOf(r) # NoBinding
    /\ get_account_explicit(accounts, BindingOf(r).account_id, required_quota_types,
                            now).val \notin {"404", "503"}

\* request r runs the body of "async with session_lock" in this step
Resolves(r) == req[r].pc \in {"idle", "wait_lock"} /\ req'[r].pc \notin {"idle", "wait_lock"}

RemovingConfig == <<Cfg("a2", FALSE, 4, FALSE, NoCooldowns, Absent)>>

NextChatReload ==
    \/ \E r \in DOMAIN req : Arrive(r, 0)
    \/ \E r \in DOMAIN req : LockGranted(r, 0)
    \/ \E r \in DOMAIN req, outcome \in CreateOutcomes : CreateDone(r, outcome, 0)
    \/ \E r \in DOMAIN req : StartWrapper(r)
    \/ \E r \in DOMAIN req, outcome \in CreateOutcomes : RecreateDone(r, outcome, 0)
    \/ \E r \in DOMAIN req : UploadDone(r, 200, 0)
    \/ \E r \in DOMAIN req, outcome \in SendOutcomes : SendDone(r, outcome, ContentResponse, 0)
    \/ \E r \in DOMAIN req, outcome \in CreateOutcomes : FailoverDone(r, outcome)
    \/ Reload(RemovingConfig)

SpecChatReload == InitChat /\ [][NextChatReload]_vars

\* request r issues a SEND in this step
IssuesSend(r) == req[r].pc # "sending" /\ req'[r].pc = "sending"

\* C25: a binding whose account is not in the pool is never used for a SEND;
\* a resolve removes such a binding and goes on as on a miss, so that after it
\* the binding of the conversation, if any, names an account of the pool.
C25_NoSendOnRemovedAccount ==
    [][ \A r \in DOMAIN req :
          /\ IssuesSend(r) => BindingOf(r)'.account_id \in PoolIds(accounts')
          /\ Resolves(r) =>
                \/ BindingOf(r)' = NoBinding
                \/ BindingOf(r)'.account_id \in PoolIds(accounts')
      ]_vars

\* the part of C25 about the resolve alone
C25_ResolveDropsStaleBinding ==
    [][ \A r \in DOMAIN req :
          (Resolves(r) /\ BindingOf(r) # NoBinding
                /\ BindingOf(r).account_id \notin PoolIds(accounts)) =>
                /\ BindingOf(r)' = NoBinding
                /\ req'[r].pc \in {"creating", "done"}
      ]_vars

\* a SEND is under way on a binding whose account the pool no longer has
C25_Witness ==
    \E r \in DOMAIN req :
        /\ req[r].pc = "sending"
        /\ BindingOf(r).account_id = req[r].account_manager
        /\ req[r].account_manager \notin PoolIds(accounts)
        /\ ret.op # "reload"

\* the cooldown timestamps of the pool
Cooldowns(accs) == [i \in DOMAIN accs |-> <<accs[i].key, accs[i].quota_cooldowns>>]

\* request r's SEND is answered with the status outcome in this step
SendAnswered(r, outcome) == SendDone(r, outcome, ContentResponse, 0)

\* C26: a 400 rejection of the SEND ends the request with that error: no
\* other account is selected, no session is created, and no cooldown is set.
C26_Rejection400IsFatal ==
    [][ \A r \in DOMAIN req :
          SendAnswered(r, 400) =>
              /\ req'[r].pc = "done"
              /\ req'[r].finalized = req[r].finalized + 1
              /\ request_counter' = request_counter
              /\ next_session' = next_session
              /\ global_session_cache' = global_session_cache
              /\ Cooldowns(accounts') = Cooldowns(accounts)
      ]_vars

\* the part of C26 about the cooldowns alone
C26_Rejection400SetsNoCooldown ==
    [][ \A r \in DOMAIN req :
          SendAnswered(r, 400) => Cooldowns(accounts') = Cooldowns(accounts) ]_vars

C26_Witness ==
    \E r \in DOMAIN req :
        /\ req[r].pc = "failover"
        /\ req[r].sends = 1
        /\ \A i \in DOMAIN accounts : accounts[i].quota_cooldowns.text = 0

\* the counter named field of account id
CounterOf(accs, id, field) ==
    IF DictHas(accs, id) THEN DictGet(accs, id)[field] ELSE 0

\* the conversation and failure counters of the pool
Counters(accs) ==
    [i \in DOMAIN accs |-> <<accs[i].key, accs[i].conversation_count, accs[i].failure_count>>]

\* request r ends in this step
Ends(r) == req'[r].finalized = req[r].finalized + 1

\* request r ends with success in this step: its SEND is answered 200 and
\* the stream leaves first_response_time set
Succeeds(r) ==
    \E rsp \in Responses :
        /\ SendDone(r, 200, rsp, 0)
        /\ status_after_stream(rsp, req[r].first_response_time \/ rsp.text # "none") = 200

\* C27: a request that ends with success adds one to the conversation counter
\* of the account it is bound to, a request that ends with failure adds one
\* to that account's failure counter, and no other step of a request changes
\* these counters.
C27_OneCountPerRequest ==
    [][ \A r \in DOMAIN req :
          LET id == req[r].account_manager
          IN /\ Succeeds(r) =>
                    CounterOf(accounts', id, "conversation_count")
                        = CounterOf(accounts, id, "conversation_count") + 1
             /\ (Ends(r) /\ ~Succeeds(r) /\ id # "") =>
                    CounterOf(accounts', id, "failure_count")
                        = CounterOf(accounts, id, "failure_count") + 1
             /\ (req'[r] # req[r] /\ ~Ends(r)) => Counters(accounts') = Counters(accounts)
      ]_vars

\* the part of C27 about failures: the request that ends with failure adds
\* one to the failure counter of its account, and failure counters change in
\* no other way
C27_FailureCountedOnce ==
    [][ \A i \in DOMAIN accounts :
          accounts'[i].failure_count =
              accounts[i].failure_count +
                  Cardinality({r \in DOMAIN req :
                      /\ Ends(r) /\ ~Succeeds(r)
                      /\ req[r].account_manager = accounts[i].key})
      ]_vars

\* the first text of the response counts a conversation whenever the request
\* ends with success
C27_SuccessCountedWhenContentFirst ==
    [][ \A r \in DOMAIN req : \A rsp \in Responses :
          (SendDone(r, 200, rsp, 0) /\ Succeeds(r) /\ rsp.text = "content") =>
              CounterOf(accounts', req[r].account_manager, "conversation_count")
                  = CounterOf(accounts, req[r].account_manager, "conversation_count") + 1
      ]_vars

\* a request has ended with success although its stream counted no conversation
C27_Witness ==
    \E r \in DOMAIN req :
        /\ req[r].pc = "done"
        /\ req[r].finalized = 1
        /\ req[r].first_response_time
        /\ Counters(accounts) = <<<<"a1", 2, 0>>, <<"a2", 0, 1>>>>

\* no account of the pool can be selected for the request
NoneSelectable == \A i \in DOMAIN accounts : ~Selectable(accounts[i], required_quota_types, now)

\* no cooldown is set in this step: a timestamp changes only by being cleared
NoCooldownSet ==
    \A i \in DOMAIN accounts : \A j \in DOMAIN accounts' :
        accounts[i].key = accounts'[j].key =>
            \A qt \in QUOTA_TYPES :
                accounts'[j].quota_cooldowns[qt] \in {accounts[i].quota_cooldowns[qt], 0}

DecoderFails(r, rsp) == rsp.ended = "ValueError" /\ SendDone(r, 200, rsp, 0)

\* the attempt of request r is handled as a failed attempt: a cooldown is set
\* on its account and the request fails over or ends with the error
FailedAttempt(r) ==
    /\ CounterOf(accounts', req[r].account_manager, "quota_cooldowns")[request_quota_type] = now
    /\ \/ req'[r].pc = "failover"
       \/ Ends(r) /\ ~Succeeds(r)

\* C29: a decoder failure after at least one object was yielded leaves the
\* response a success; a decoder failure before any object makes the attempt
\* a failed attempt, handled like a transport failure.
C29_DecoderFailureByPosition ==
    [][ \A r \in DOMAIN req : \A rsp \in Responses :
          DecoderFails(r, rsp) =>
              /\ rsp.objects >= 1 => Succeeds(r) /\ req'[r].pc = "done"
              /\ rsp.objects = 0 => FailedAttempt(r)
      ]_vars

\* what the code decides by: a decoder failure leaves the response a success
\* when some chunk of this request has set first_response_time, and makes the
\* attempt a failed attempt otherwise
C29_DecoderFailureByFirstResponse ==
    [][ \A r \in DOMAIN req : \A rsp \in Responses :
          DecoderFails(r, rsp) =>
              IF req[r].first_response_time \/ rsp.text # "none"
              THEN Succeeds(r) /\ req'[r].pc = "done"
              ELSE FailedAttempt(r)
      ]_vars

\* a stream that yields one object without text and then fails in the decoder
ObjectThenValueError == [objects |-> 1, text |-> "none", ended |-> "ValueError"]

\* a request is about to receive such a stream, and the step that receives it
\* fails over to another account
C29_Witness ==
    \E r \in DOMAIN req :
        /\ req[r].pc = "sending"
        /\ ~req[r].first_response_time
        /\ ENABLED (DecoderFails(r, ObjectThenValueError) /\ req'[r].pc = "failover")

----------------------------------------------------------------------------
(* The decoder on arrays with a character out of place between the objects *)

\* characters that belong to no object and are no separator
StrayCharacters == {"}", QUOTE, BACKSLASH, " ", "x"}

RECURSIVE StrayJoin(_, _, _, _)
\* the objects from the k-th on, comma separated, with the character stray
\* put before the object that follows gap objects (or before the closing
\* bracket)
StrayJoin(objs, k, gap, stray) ==
    IF k > Len(objs) THEN (IF gap = Len(objs) THEN <<stray>> ELSE <<>>)
    ELSE (IF gap = k - 1 THEN <<stray>> ELSE <<>>)
         \o objs[k] \o (IF k < Len(objs) THEN <<",">> ELSE <<>>)
         \o StrayJoin(objs, k + 1, gap, stray)

InitStray ==
    /\ IdleService("start_login")
    /\ IdleFingerprint
    /\ InitNoPool
    /\ \E objs \in UNION {[1..n -> ObjectTexts] : n \in 1..MaxObjects} :
         \E gap \in 0..Len(objs) : \E stray \in StrayCharacters :
            stream = [text |-> <<"[">> \o StrayJoin(objs, 1, gap, stray) \o <<"]">>,
                      objects |-> objs, stray |-> stray]
    /\ parser = [NoParser EXCEPT !.at = "start"]

SpecStray == InitStray /\ [][NextDecoder]_vars

\* the step consumes a character other than an opening brace at depth 0
AtDepthZero ==
    /\ Step
    /\ parser.brace_level = 0
    /\ stream.text[parser'.pos] # "{"

\* C30: a character at brace depth 0 that opens no object is ignored: the
\* depth stays 0 and the decoder stays outside strings, so the depth is never
\* negative and every well-formed object of the array is yielded.
C30_DepthZeroCharactersIgnored ==
    [][ /\ AtDepthZero => parser'.brace_level = 0 /\ ~parser'.in_string
        /\ Step => parser'.brace_level >= 0 /\ parser'.at = "scanning"
        /\ EndOfInput => parser'.yielded = stream.objects
      ]_vars

\* the same for every character at depth 0 but a closing brace and a
\* backslash
C30_IgnoredUnlessBraceOrBackslash ==
    [][ stream.stray \notin {"}", BACKSLASH} =>
          /\ AtDepthZero => parser'.brace_level = 0 /\ ~parser'.in_string
          /\ Step => parser'.brace_level >= 0 /\ parser'.at = "scanning"
          /\ EndOfInput => parser'.yielded = stream.objects
      ]_vars

\* a closing brace out of place was consumed at depth 0 and the object after
\* it was not yielded
C30_Witness ==
    /\ parser.at = "returned"
    /\ stream.stray = "}"
    /\ parser.brace_level < 0
    /\ Len(parser.yielded) < Len(stream.objects)

----------------------------------------------------------------------------
(***************************************************************************)
(* The three kinds of asyncio.Lock of MultiAccountManager, one step per    *)
(* acquisition and per body: _session_locks_lock (acquire_session_lock),   *)
(* the per-conversation lock (chat_impl, "async with session_lock") and    *)
(* _cache_lock (set_session_cache, update_session_time and the sweep).     *)
(* A coroutine may be suspended at every acquisition and every await.      *)
(***************************************************************************)

\* the coroutine that runs start_background_cleanup, as a lock holder
CleanupTask == -1

async_with_exit_held(holder) == holder

\* leaving an "async with lock" block releases the lock
async_with_exit(holder) == 0

\* the locals of chat_impl that matter for its locks; under_cache_lock is the
\* call the request makes next under _cache_lock
NewLockUser(conv_key) ==
    [pc |-> "idle", conv_key |-> conv_key, session_lock |-> 0,
     under_cache_lock |-> "none", retry_idx |-> 0]

\* the positions inside "async with session_lock"
InsideSessionLock == {"get_account", "create_google_session"}

\* request r holds the lock object of its conversation
HoldsSessionLock(r) ==
    /\ req[r].session_lock # 0
    /\ lock_owner[req[r].session_lock] = r

LocksFrame ==
    /\ ret' = NoRet
    /\ UNCHANGED <<configVars, serviceVars, decoderVars, messageVars, poolVars, histVars,
                   multi_account_mgr, next_session, now>>

\* acquire_session_lock: "async with self._session_locks_lock" is entered
EnterSessionLocksLock(r) ==
    /\ req[r].pc = "idle"
    /\ session_locks_lock = 0
    /\ session_locks_lock' = r
    /\ req' = [req EXCEPT ![r].pc = "in_acquire_session_lock"]
    /\ LocksFrame
    /\ UNCHANGED <<global_session_cache, session_locks, lock_owner, next_lock, cache_lock>>

\* acquire_session_lock: the body (eviction, lookup or creation of the lock)
\* and the exit of the block
LookUpSessionLock(r) ==
    /\ req[r].pc = "in_acquire_session_lock"
    /\ session_locks_lock = r
    /\ LET a == acquire_session_lock(session_locks, global_session_cache,
                                     req[r].conv_key, next_lock)
       IN /\ session_locks' = a.locks
          /\ next_lock' = IF a.fresh THEN next_lock + 1 ELSE next_lock
          /\ lock_owner' = IF a.fresh THEN Append(lock_owner, 0) ELSE lock_owner
          /\ req' = [req EXCEPT ![r].pc = "session_lock", ![r].session_lock = a.lock]
    /\ session_locks_lock' = async_with_exit(session_locks_lock)
    /\ LocksFrame
    /\ UNCHANGED <<global_session_cache, cache_lock>>

\* chat_impl: "async with session_lock" is entered and the binding is read
EnterSessionLock(r) ==
    /\ req[r].pc = "session_lock"
    /\ lock_owner[req[r].session_lock] = 0
    /\ lock_owner' = [lock_owner EXCEPT ![req[r].session_lock] = r]
    /\ req' = [req EXCEPT ![r].pc =
                    IF get_session_cache(global_session_cache, req[r].conv_key) # NoBinding
                    THEN "get_account" ELSE "create_google_session"]
    /\ LocksFrame
    /\ UNCHANGED <<global_session_cache, session_locks, next_lock, mutexVars>>

\* cache hit: get_account returns and the block is left; response_wrapper
\* then calls update_session_time
LeaveSessionLock(r) ==
    /\ req[r].pc = "get_account"
    /\ lock_owner' = [lock_owner EXCEPT ![req[r].session_lock] = async_with_exit(@)]
    /\ req' = [req EXCEPT ![r].pc = "cache_lock", ![r].under_cache_lock = "update_session_time"]
    /\ LocksFrame
    /\ UNCHANGED <<global_session_cache, session_locks, next_lock, mutexVars>>

\* cache miss: create_google_session returns inside the block (set_session_cache
\* follows) or raises on the last try (the block is left by the exception)
SessionCreated(r, ok) ==
    /\ req[r].pc = "create_google_session"
    /\ IF ok
       THEN /\ req' = [req EXCEPT ![r].pc = "cache_lock",
                                  ![r].under_cache_lock = "set_session_cache"]
            /\ UNCHANGED lock_owner
       ELSE /\ req' = [req EXCEPT ![r].pc = "done"]
            /\ lock_owner' = [lock_owner EXCEPT ![req[r].session_lock] = async_with_exit(@)]
    /\ LocksFrame
    /\ UNCHANGED <<global_session_cache, session_locks, next_lock, mutexVars>>

\* set_session_cache / update_session_time: "async with self._cache_lock" is
\* entered
EnterCacheLock(r) ==
    /\ req[r].pc = "cache_lock"
    /\ cache_lock = 0
    /\ cache_lock' = r
    /\ req' = [req EXCEPT ![r].pc = "in_cache_lock"]
    /\ LocksFrame
    /\ UNCHANGED <<global_session_cache, session_locks, lock_owner, next_lock, session_locks_lock>>

\* the body under _cache_lock and the exit of the block; a request that put
\* the binding inside "async with session_lock" leaves that block next
LeaveCacheLock(r) ==
    /\ req[r].pc = "in_cache_lock"
    /\ cache_lock = r
    /\ global_session_cache' =
            IF req[r].under_cache_lock = "set_session_cache"
            THEN set_session_cache(global_session_cache, req[r].conv_key, "a1", r, now)
            ELSE update_session_time(global_session_cache, req[r].conv_key, now)
    /\ cache_lock' = async_with_exit(cache_lock)
    /\ lock_owner' = IF HoldsSessionLock(r)
                     THEN [lock_owner EXCEPT ![req[r].session_lock] = async_with_exit(@)]
                     ELSE lock_owner
    /\ req' = [req EXCEPT ![r].pc = "stream_chat_generator", ![r].under_cache_lock = "none"]
    /\ LocksFrame
    /\ UNCHANGED <<session_locks, next_lock, session_locks_lock>>

\* the SEND ends: with success, or with a failure after which the failover
\* creates a session and calls set_session_cache outside every session lock
SendEnds(r, ok) ==
    /\ req[r].pc = "stream_chat_generator"
    /\ req' = IF ok \/ req[r].retry_idx >= 1
              THEN [req EXCEPT ![r].pc = "done"]
              ELSE [req EXCEPT ![r].pc = "cache_lock", ![r].retry_idx = @ + 1,
                               ![r].under_cache_lock = "set_session_cache"]
    /\ LocksFrame
    /\ UNCHANGED <<cacheVars, mutexVars>>

\* start_background_cleanup wakes up and enters "async with self._cache_lock"
CleanupEntersCacheLock ==
    /\ cache_lock = 0
    /\ cache_lock' = CleanupTask
    /\ LocksFrame
    /\ UNCHANGED <<cacheVars, req, session_locks_lock>>

\* start_background_cleanup: _clean_expired_cache, _ensure_cache_size, exit
CleanupLeavesCacheLock ==
    /\ cache_lock = CleanupTask
    /\ global_session_cache' = ensure_cache_size(clean_expired_cache(global_session_cache, now))
    /\ cache_lock' = async_with_exit(cache_lock)
    /\ LocksFrame
    /\ UNCHANGED <<session_locks, lock_owner, next_lock, next_session, req, session_locks_lock>>

InitLocks ==
    /\ InitCommon
    /\ LET m == load_multi_account_config(InitConfig, InitStats, 1)
       IN /\ accounts = lifespan_restore(m.accounts, InitStats)
          /\ account_list = m.account_list
    /\ req = <<NewLockUser("k1"), NewLockUser("k1"), NewLockUser("k2")>>
    /\ MAX_ACCOUNT_SWITCH_TRIES = max_account_switch_tries
    /\ database_enabled = TRUE

NextLocks ==
    \/ Tick
    \/ \E r \in DOMAIN req : EnterSessionLocksLock(r)
    \/ \E r \in DOMAIN req : LookUpSessionLock(r)
    \/ \E r \in DOMAIN req : EnterSessionLock(r)
    \/ \E r \in DOMAIN req : LeaveSessionLock(r)
    \/ \E r \in DOMAIN req, ok \in BOOLEAN : SessionCreated(r, ok)
    \/ \E r \in DOMAIN req : EnterCacheLock(r)
    \/ \E r \in DOMAIN req : LeaveCacheLock(r)
    \/ \E r \in DOMAIN req, ok \in BOOLEAN : SendEnds(r, ok)
    \/ CleanupEntersCacheLock
    \/ CleanupLeavesCacheLock

SpecLocks == InitLocks /\ [][NextLocks]_vars

\* a step of the coroutine of request r
StepOf(r) ==
    \/ EnterSessionLocksLock(r) \/ LookUpSessionLock(r) \/ EnterSessionLock(r)
    \/ LeaveSessionLock(r) \/ \E ok \in BOOLEAN : SessionCreated(r, ok)
    \/ EnterCacheLock(r) \/ LeaveCacheLock(r) \/ \E ok \in BOOLEAN : SendEnds(r, ok)

\* the holder of the lock request r is about to acquire (0: the lock is free
\* or r is not at an acquisition)
WaitsFor(r) ==
    CASE req[r].pc = "idle" -> session_locks_lock
      [] req[r].pc = "session_lock" -> lock_owner[req[r].session_lock]
      [] req[r].pc = "cache_lock" -> cache_lock
      [] OTHER -> 0

\* the coroutine p can take a step now
CanRun(p) == IF p = CleanupTask THEN ENABLED CleanupLeavesCacheLock ELSE ENABLED StepOf(p)

\* p can take a step, or waits for a lock whose holder can, or for one whose
\* holder waits for a lock whose holder can
NotStuck(p) ==
    \/ CanRun(p)
    \/ /\ p # CleanupTask /\ WaitsFor(p) # 0
       /\ LET h == WaitsFor(p)
          IN \/ CanRun(h)
             \/ h # CleanupTask /\ WaitsFor(h) # 0 /\ CanRun(WaitsFor(h))

\* C31: no coroutine is ever stuck on a lock.  The holder of _cache_lock is
\* inside the body of its block and waits for nothing; a request that is
\* about to acquire a per-conversation lock holds neither _cache_lock nor
\* _session_locks_lock, and the one that asks for _cache_lock while it holds
\* its per-conversation lock took that lock first.
C31_NoDeadlock ==
    /\ \A r \in DOMAIN req :
          /\ cache_lock = r => req[r].pc = "in_cache_lock"
          /\ session_locks_lock = r => req[r].pc = "in_acquire_session_lock"
          /\ req[r].pc = "session_lock" =>
                /\ cache_lock # r /\ session_locks_lock # r
                /\ \A l \in DOMAIN lock_owner : lock_owner[l] # r
          /\ req[r].pc # "done" => NotStuck(r)
          /\ req[r].pc = "done" => \A l \in DOMAIN lock_owner : lock_owner[l] # r
    /\ cache_lock = CleanupTask => NotStuck(CleanupTask)

\* a request waits for _cache_lock inside "async with session_lock" while the
\* sweep holds _cache_lock and another request waits for the same
\* per-conversation lock
C31_Witness ==
    /\ cache_lock = CleanupTask
    /\ \E r, q \in DOMAIN req :
          /\ r # q
          /\ req[r].pc = "cache_lock" /\ HoldsSessionLock(r)
          /\ req[q].pc = "session_lock" /\ WaitsFor(q) = r
    /\ Len(session_locks) > session_locks_max_size

(***************************************************************************)
(* Terminal states of a task.                                              *)
(***************************************************************************)
TerminalStatuses == {"success", "failed", "cancelled"}

\* C32: a task's status reaches a terminal value at most once and stays
\* there: no cancel call, worker step or late log append changes the status
\* of a finished task, and cancel on a finished or unknown task changes
\* neither the queue nor any task.
C32_TerminalAbsorbing ==
    [][ \A id \in TaskIds :
          /\ tasks[id].status \in TerminalStatuses =>
                 tasks'[id].status = tasks[id].status
          /\ (CancelTask(id) /\ tasks[id].status \in TerminalStatuses \cup {"none"}) =>
                 UNCHANGED <<tasks, pending_task_ids, current_task_id,
                             current_asyncio_task, worker_task, must_cancel>>
      ]_vars

\* a task cancelled while pending that _run_task_directly has since been
\* through, and on which cancel_task can be called again
C32_Witness ==
    \E id \in task_hist.cancelled_pending :
        /\ tasks[id].status \in TerminalStatuses
        /\ direct[id] = "done"
        /\ ENABLED (CancelTask(id) /\ UNCHANGED tasks)
        /\ \E other \in TaskIds : tasks[other].status = "success"

(***************************************************************************)
(* The account a SEND is made with and the account of its session.         *)
(***************************************************************************)
\* C33: every SEND uses a session id together with the account the session
\* was created on, also when another request of the same conversation fails
\* over and overwrites the binding.
C33_SendOnSessionOfItsAccount ==
    \A r \in DOMAIN req :
        req[r].pc = "sending" => req[r].session_account = req[r].account_manager

\* a request sends with the account it resolved to a session that the
\* failover of the other request created on another account
C33_Witness ==
    \E r, other \in DOMAIN req :
        /\ r # other
        /\ req[r].pc = "sending"
        /\ req[r].session_account # req[r].account_manager
        /\ req[other].account_manager = req[r].session_account
        /\ req[other].retry_idx > 0

(***************************************************************************)
(* The terminal outcome of a request (finalize_result).                    *)
(***************************************************************************)
\* C34: every request that got past RESOLVE_SESSION records exactly one
\* terminal outcome: never none, also when the retry budget computed at SEND
\* time is 0, and never more than one.
C34_ExactlyOneOutcome ==
    \A r \in DOMAIN req : req[r].pc = "done" => req[r].finalized = 1

\* what holds: no request records more than one outcome, and a request that
\* ends with a retry budget above 0 has recorded one
C34_AtMostOneOutcome ==
    \A r \in DOMAIN req :
        /\ req[r].finalized <= 1
        /\ req[r].pc = "done" /\ req[r].max_retries > 0 => req[r].finalized = 1

\* a request that resolved to the binding of its conversation and ended with
\* a retry budget of 0, without a SEND and without an outcome
C34_Witness ==
    \E r \in DOMAIN req :
        /\ req[r].pc = "done"
        /\ req[r].account_manager # ""
        /\ req[r].max_retries = 0
        /\ req[r].selectable_at_send = 0
        /\ req[r].sends = 0
        /\ req[r].finalized = 0

(***************************************************************************)
(* The lock object of a conversation.                                      *)
(***************************************************************************)
\* request r is inside "async with session_lock" or waits to enter it
HoldsOrAwaitsLock(r) == req[r].pc \in {"creating", "wait_lock"}

\* C35: all requests that hold or wait for the lock of one conversation refer
\* to the same lock object: eviction never removes a lock that is held or
\* waited for, and a reload does not hand later requests another lock while
\* an earlier request holds the old one.
C35_OneLockPerConversation ==
    \A r1, r2 \in DOMAIN req :
        (/\ req[r1].conv_key = req[r2].conv_key
         /\ HoldsOrAwaitsLock(r1)
         /\ HoldsOrAwaitsLock(r2))
            => req[r1].session_lock = req[r2].session_lock

\* two requests of one conversation inside "async with session_lock" at once,
\* each holding a lock of its own, the second one created after the reload
C35_Witness ==
    /\ multi_account_mgr = ReloadedManager
    /\ \E r1, r2 \in DOMAIN req :
        /\ req[r1].conv_key = req[r2].conv_key
        /\ req[r1].pc = "creating" /\ req[r2].pc = "creating"
        /\ lock_owner[req[r1].session_lock] = r1
        /\ lock_owner[req[r2].session_lock] = r2
        /\ req[r1].session_lock < req[r2].session_lock
        /\ ~DictHas(session_locks, req[r1].conv_key)
             \/ DictGet(session_locks, req[r1].conv_key).lock = req[r2].session_lock

(***************************************************************************)
(* The periodic sweep and a reload.  main.lifespan starts                  *)
(* start_background_cleanup once, on the manager built at import time; the *)
(* coroutine sleeps 300 s and sweeps, for ever.                            *)
(***************************************************************************)
SweepKeys == {"k1", "k2"}

NextSweep ==
    \/ Tick
    \/ \E k \in SweepKeys : SetSessionCache(k, "a1", 1)
    \/ \E k \in SweepKeys : UpdateSessionTime(k)
    \/ Sweep
    \/ Reload(InitConfig)

\* the cleanup coroutine gets its turn after every sleep
FairSweep == WF_vars(Sweep)

SpecSweepFair == InitPool /\ [][NextSweep]_vars /\ FairSweep

\* the binding of conv_key was left untouched for longer than the TTL
Expired(conv_key) ==
    /\ DictHas(global_session_cache, conv_key)
    /\ now - DictGet(global_session_cache, conv_key).updated_at > cache_ttl

\* C36: after a pool reload the periodic sweep still applies to the cache the
\* requests use: a binding stored after the reload and left untouched for
\* longer than the TTL is eventually removed by a sweep.
C36_SweepAfterReload ==
    \A k \in SweepKeys :
        (multi_account_mgr = ReloadedManager /\ Expired(k)) ~> ~Expired(k)

\* what holds: until the first reload an expired binding is removed
C36_SweepBeforeReload ==
    \A k \in SweepKeys :
        (multi_account_mgr = StartupManager /\ Expired(k)) ~> ~Expired(k)

\* a binding stored after the reload has expired and the clock has stopped
C36_Witness ==
    /\ multi_account_mgr = ReloadedManager
    /\ \E k \in SweepKeys : Expired(k)
    /\ now = MaxTime
    /\ ret = NoRet

(***************************************************************************)
(* A failover that cannot be completed.                                    *)
(***************************************************************************)
\* the cooldowns of account id
CooldownsOf(accs, id) == CounterOf(accs, id, "quota_cooldowns")

\* the attempt of request r fails in this step with retry budget left and no
\* replacement account can be selected
SelectionFails(r) ==
    /\ req[r].pc \in {"sending", "uploading"}
    /\ req[r].retry_idx < req[r].max_retries - 1
    /\ Ends(r)
    /\ ~Succeeds(r)

\* create_google_session on the replacement account of request r raises
CreationFails(r) == \E outcome \in CreateOutcomes \ {200} : FailoverDone(r, outcome)

InitWorker ==
    /\ IdleService("enqueue")
    /\ IdleDecoder
    /\ IdleFingerprint
    /\ InitNoPool

NextWorker ==
    \/ \E count \in 1..MaxItems : Enqueue(count)
    \/ \E id \in TaskIds : CancelTask(id)
    \/ WorkerRun
    \/ \E id \in TaskIds : BodyStart(id)
    \/ \E id \in TaskIds, outcome \in ThreadOutcomes : BodyResume(id, outcome)
    \/ \E id \in TaskIds : BodyRaises(id)
    \/ \E id \in TaskIds : RunOneTaskResume(id)

\* the event loop runs every coroutine that is ready to go on, and the call
\* a body awaits comes back
FairWorker ==
    /\ WF_vars(WorkerRun)
    /\ \A id \in TaskIds :
        /\ WF_vars(BodyStart(id))
        /\ WF_vars(\E outcome \in ThreadOutcomes : BodyResume(id, outcome))
        /\ WF_vars(RunOneTaskResume(id))

SpecWorkerFair == InitWorker /\ [][NextWorker]_vars /\ FairWorker

\* C38: with task bodies that terminate, every enqueued task eventually
\* leaves pending (it is started or cancelled), also after an earlier task
\* ended through failure or cancellation.
C38_PendingTaskLeavesPending ==
    \A id \in TaskIds :
        (tasks[id].status = "pending") ~> (tasks[id].status # "pending")

\* what holds: a pending task leaves pending unless _run_worker was ended by
\* an exception
C38_PendingUnlessWorkerRaised ==
    \A id \in TaskIds :
        (tasks[id].status = "pending")
            ~> (tasks[id].status # "pending" \/ worker_task = "raised")

\* _run_worker was ended by the exception of the error log of a failed task
\* whose cancellation had been requested, with a task left in the queue
C38_Witness ==
    /\ worker_task = "raised"
    /\ \E id \in TaskIds :
        /\ tasks[id].status = "failed"
        /\ tasks[id].cancel_requested
    /\ \E id \in Range(pending_task_ids) : tasks[id].status = "pending"

(***************************************************************************)
(* The two decoders over a stream of lines: parse_json_array_stream reads  *)
(* an iterator of lines, parse_json_array_stream_async an asynchronous     *)
(* one.  The loop body over the characters of a line is the same statement *)
(* for statement in both (step); they differ in how the line that opens    *)
(* the array is handled.                                                   *)
(***************************************************************************)
\* {x}: braces that json.loads rejects
BadObject == <<"{", "x", "}">>

LineObjects == {PlainObject, BracesInString, BadObject}

\* what may come before the line that opens the array: nothing, an empty
\* line, a line of white space, a line of other text
PrefixLines == {<<>>, << <<>> >>, << <<" ">> >>, << <<"x">> >>}

\* the locals of a decoder before its first line
ParserStart == [NoParser EXCEPT !.at = "scanning"]

RECURSIVE scan_line(_, _, _)
\* for char in line, from the i-th character on, up to a ValueError
scan_line(p, line, i) ==
    IF i > Len(line) \/ p.at = "ValueError" THEN p
    ELSE scan_line(step(p, line[i]), line, i + 1)

RECURSIVE scan_lines(_, _, _)
\* for line in line_iterator: for char in line, from the k-th line on
scan_lines(p, lines, k) ==
    IF k > Len(lines) \/ p.at = "ValueError" THEN p
    ELSE scan_lines(scan_line(p, lines[k], 1), lines, k + 1)

\* the first loop: the number of the first line that, stripped, is not empty
\* and starts with '[' (0: there is none)
first_array_line(lines) ==
    LET opening == {i \in DOMAIN lines :
                       strip(lines[i]) # <<>> /\ Head(strip(lines[i])) = "["}
    IN IF opening = {} THEN 0 ELSE CHOOSE i \in opening : \A j \in opening : i <= j

\* line = stripped_line[1:]
rest_of_line(line) == Tail(strip(line))

\* the generator is over: ValueError stays, otherwise the end of the input
finish(p) == IF p.at = "ValueError" THEN p ELSE end_of_input(p)

\* parse_json_array_stream over an iterator of lines: the rest of the opening
\* line is chained before the lines the iterator still holds
parse_json_array_stream(lines) ==
    LET i == first_array_line(lines)
    IN IF i = 0 THEN [ParserStart EXCEPT !.at = "ValueError"]
       ELSE finish(scan_lines(ParserStart,
                              <<rest_of_line(lines[i])>> \o SubSeq(lines, i + 1, Len(lines)),
                              1))

\* a second loop that reads the opening line once more
lines_from_opening(lines, i) == SubSeq(lines, i, Len(lines))

\* the second "async for line in line_iterator": the lines after the opening one
lines_after_opening(lines, i) == SubSeq(lines, i + 1, Len(lines))

\* parse_json_array_stream_async: the rest of the opening line is scanned
\* inside the first loop, then the second loop reads the lines that follow
parse_json_array_stream_async(lines) ==
    LET i == first_array_line(lines)
    IN IF i = 0 THEN [ParserStart EXCEPT !.at = "ValueError"]
       ELSE finish(scan_lines(scan_line(ParserStart, rest_of_line(lines[i]), 1),
                              lines_after_opening(lines, i), 1))

\* what a caller sees of a decoder: the objects and how the generator ended
Outcome(p) == [yielded |-> p.yielded, at |-> p.at]

\* an array of objs, with or without its opening bracket, cut into two lines,
\* the first of them with or without leading white space, after a prefix
LinesOf(objs, open, cut, pad, prefix) ==
    LET text == IF open THEN ArrayText(objs) ELSE Tail(ArrayText(objs))
    IN prefix \o << (IF pad THEN <<" ">> ELSE <<>>) \o SubSeq(text, 1, cut),
                    SubSeq(text, cut + 1, Len(text)) >>

InitLines ==
    /\ IdleService("start_login")
    /\ IdleFingerprint
    /\ InitNoPool
    /\ \E objs \in UNION {[1..n -> LineObjects] : n \in 0..MaxObjects} :
         \E open, pad \in BOOLEAN : \E prefix \in PrefixLines :
            \E cut \in 0..(Len(ArrayText(objs)) - 1) :
                stream = [text |-> ArrayText(objs), objects |-> objs,
                          lines |-> LinesOf(objs, open, cut, pad, prefix)]
    /\ parser = [at |-> "start", sync |-> NoParser, async |-> NoParser]

\* the lines are given to parse_json_array_stream
DecodeSync ==
    /\ parser.sync = NoParser
    /\ parser' = [parser EXCEPT !.at = "decoded",
                                !.sync = parse_json_array_stream(stream.lines)]
    /\ DecoderOnly

\* the same lines are given to parse_json_array_stream_async
DecodeAsync ==
    /\ parser.async = NoParser
    /\ parser' = [parser EXCEPT !.at = "decoded",
                                !.async = parse_json_array_stream_async(stream.lines)]
    /\ DecoderOnly

NextLines == DecodeSync \/ DecodeAsync

SpecLines == InitLines /\ [][NextLines]_vars

BothDecoded == parser.sync # NoParser /\ parser.async # NoParser

\* C39: for every sequence of input lines the synchronous and the
\* asynchronous decoder yield the same objects and end in the same way.
C39_DecodersAgree ==
    BothDecoded =>
        /\ Outcome(parser.sync) = Outcome(parser.async)
        /\ parser.sync.warned = parser.async.warned

\* both decoders were given an array whose opening line ends inside a string
\* of its first object and have yielded that object; the second object made
\* them end with ValueError
C39_Witness ==
    /\ BothDecoded
    /\ first_array_line(stream.lines) = 2
    /\ scan_line(ParserStart, rest_of_line(stream.lines[2]), 1).in_string
    /\ parser.async.yielded = <<BracesInString>>
    /\ parser.async.at = "ValueError"

(***************************************************************************)
(* The size of the lock table.  The code has cache_max_size = 1000 and     *)
(* _session_locks_max_size = 2000; here the cache is scaled to two entries *)
(* and the lock table to one entry more, so that the cache stays the       *)
(* smaller one.                                                            *)
(***************************************************************************)
small_cache_max_size == 2
session_locks_max_size_over_cache == small_cache_max_size + 1

LockKeys == {"k1", "k2", "k3", "k4", "k5"}
BoundKeys == {"k1", "k2", "k3"}

\* set_session_cache(conv_key, "a1", 1) on the small cache
SetSmallSessionCache(conv_key) ==
    /\ global_session_cache' =
            set_session_cache_sized(small_cache_max_size, global_session_cache, conv_key,
                                    "a1", 1, now)
    /\ ret' = [NoRet EXCEPT !.op = "set_session_cache", !.val = 0]
    /\ UNCHANGED <<configVars, mutexVars, multi_account_mgr, serviceVars, decoderVars,
                   messageVars, now, poolVars, session_locks, lock_owner, next_lock,
                   next_session, req, histVars>>

\* the fingerprints of the lock table that have no binding
Unbound(locks, cache) == {k \in Range(DictKeys(locks)) : ~DictHas(cache, k)}

\* acquire_session_lock(conv_key); which lock object is returned plays no
\* part here, so every new lock is given the same name; ret.val is the
\* number of locks the call evicted
AcquireSessionLock(conv_key) ==
    /\ LET a == acquire_session_lock_sized(session_locks_max_size_over_cache, session_locks,
                                           global_session_cache, conv_key, next_lock)
       IN /\ session_locks' = a.locks
          /\ ret' = [NoRet EXCEPT !.op = "acquire_session_lock",
                                  !.val = Len(session_locks) + (IF a.fresh THEN 1 ELSE 0)
                                          - Len(a.locks)]
    /\ UNCHANGED <<configVars, mutexVars, multi_account_mgr, serviceVars, decoderVars,
                   messageVars, now, poolVars, global_session_cache, lock_owner, next_lock,
                   next_session, req, histVars>>

NextLockTable ==
    \/ \E k \in LockKeys : AcquireSessionLock(k)
    \/ \E k \in BoundKeys : SetSmallSessionCache(k)

SpecLockTable == InitPool /\ [][NextLockTable]_vars

\* C40: with the cache capacity below the capacity of the lock table, the
\* table never holds more than its capacity + 1 locks after any sequence of
\* acquire_session_lock calls; an eviction removes only locks whose
\* fingerprint has no binding, and at most half of those in one call.
C40_LockTableBounded ==
    [][ \A k \in LockKeys :
          AcquireSessionLock(k) =>
              LET gone == Range(DictKeys(session_locks)) \ Range(DictKeys(session_locks'))
              IN /\ Len(session_locks') <= session_locks_max_size_over_cache + 1
                 /\ gone \subseteq Unbound(session_locks, global_session_cache)
                 /\ 2 * Cardinality(gone)
                        <= Cardinality(Unbound(session_locks, global_session_cache))
                 /\ Len(session_locks) <= session_locks_max_size_over_cache => gone = {}
      ]_vars

\* a call that found the table one over its capacity and the cache full has
\* evicted one of the two locks without a binding and added a new lock
C40_Witness ==
    /\ ret.op = "acquire_session_lock"
    /\ ret.val = 1
    /\ Len(session_locks) = session_locks_max_size_over_cache + 1
    /\ Len(global_session_cache) = small_cache_max_size
    /\ Cardinality(Unbound(session_locks, global_session_cache)) = 2

====
